---- MODULE Spec2Model ----
(***************************************************************************)
(* A model of the concurrent container layer (rcu_ptr, Array, Dictionary)  *)
(* and of the perfdata writers (GraphiteWriter, OpenTsdbWriter).           *)
(*                                                                         *)
(* Three groups of variables, one per subsystem.  Each specification       *)
(* drives one group and leaves the other groups at their initial value:    *)
(*   SpecRcu      an Array cell under concurrent writers and readers       *)
(*   SpecDict     Dictionary objects under sequences of operations         *)
(*   SpecWriters  a Graphite or an OpenTSDB writer with its threads        *)
(*   SpecRun      a running Graphite writer under fair scheduling          *)
(***************************************************************************)
EXTENDS Integers, Sequences, FiniteSets, TLC

(***************************************************************************)
(* Bounds of the model.                                                    *)
(***************************************************************************)
\* copy_update / reset calls the writer threads make, all together
MaxOps == 3
\* longest pair list handed to the Dictionary constructor
MaxPairs == 3
\* tasks of one kind the work queue holds at a time
MaxQueue == 1
\* Resume calls in the life of a writer
MaxResume == 1
\* metric lines one check result produces
MaxLines == 2
\* written metric lines the history of a writer records
MaxSent == 3
\* width of int in bits (32 in the builds; the model scales it down, and
\* long with it)
IntBits == 4
\* longest field name passed to GetFieldByName / SetFieldByName, and the
\* longest Array they are called on
MaxKey == 2
MaxLen == 2
\* Array and Dictionary objects that exist at a time
MaxObjs == 7
\* Set calls made on the objects of a container and its clone
MaxSets == 2
MaxStr == 3
MaxPerf == 1
MaxIndexOps == 2
MaxLocks == 2
\* Resume calls of a writer that is paused and resumed again
MaxCycles == 2

Writers == {"w1", "w2"}
Readers == {"r1"}
\* dynamic values: 0 is the empty value, the others stand for numbers
Empty == 0
Vals == {1, 2}
\* the value each writer thread passes to Add
ValOf == [w \in Writers |-> IF w = "w1" THEN 1 ELSE 2]
\* the field names the writers pass to SetFieldByName, as parsed indexes
Idxs == {1}

VARIABLES
    \* ---- rcu_ptr<ArrayData> of one Array --------------------------------
    heap,       \* heap[id]: contents of the ArrayData object id, or Free
    sp,         \* rcu_ptr::sp, the published snapshot (an id)
    wpc,        \* wpc[w]: position of writer w inside copy_update
    wop,        \* wop[w]: the Array operation writer w is executing
    wsp_l,      \* wsp_l[w]: copy_update's local sp_l
    wr,         \* wr[w]: copy_update's local r (0: empty)
    opsLeft,    \* calls the writers may still make
    view,       \* view[r]: the ArrayView reader r holds (0: none)
    pub,        \* history: pub[id] is the contents id was published with
    sp0,        \* history: the snapshot the Array was constructed with
    added,      \* history: added[v] Add(v) calls have returned
    nonAdd,     \* history: some call other than Add was started
    stale       \* history: stale[w]: a snapshot was published since writer
                \* w, inside copy_update, last loaded sp into sp_l

rcuVars == <<heap, sp, wpc, wop, wsp_l, wr, opsLeft, view, pub, sp0, added,
             nonAdd, stale>>

VARIABLES
    \* ---- Dictionary objects ----------------------------------------------
    dct,        \* dct[d]: the snapshot of Dictionary d, a sequence of pairs
    ctorIn,     \* history: the pair list the last constructor call was given
    ctorOf      \* history: the Dictionary that call built (0: changed since)

dictVars == <<dct, ctorIn, ctorOf>>

VARIABLES
    \* ---- a perfdata writer -----------------------------------------------
    dialect,    \* "graphite" or "opentsdb" ("none": no writer)
    paused,     \* IsPaused()
    connected,  \* GetConnected(), Graphite only
    m_Stream,   \* the NetworkStream m_Stream refers to (0: empty)
    sopen,      \* that stream's socket is open
    timer,      \* m_ReconnectTimer is set
    subs,       \* subscriptions to OnNewCheckResult
    queue,      \* m_WorkQueue, oldest task first, Graphite only
    pc,         \* pc[t]: position of thread t
    eleft,      \* subscriptions the current check result still has to call
    wleft,      \* metric lines the current check result still has to send
    accepting,  \* the backend accepts connections
    oldTasks,   \* history: unfinished tasks enqueued before Pause was called
    torn,       \* history: a write failure was handled ("yes"), and Pause
                \* has connected since ("byPause")
    writeErr,   \* history: the exception of a failed write is in flight
    opened,     \* history: sockets opened since connected last became true
    written     \* history: the metric lines written to the stream, oldest
                \* first, each with the number of the task that wrote it

wrVars == <<dialect, paused, connected, m_Stream, sopen, timer, subs, queue,
            pc, eleft, wleft, accepting, oldTasks, torn, writeErr, opened,
            written>>

VARIABLES
    \* ---- one call of Array::GetFieldByName / SetFieldByName -------------
    fdata,      \* contents of the Array's published snapshot
    flong,      \* width of long in the build
    fcall       \* the call made and its outcome ("none": no call yet)

fieldVars == <<fdata, flong, fcall>>

VARIABLES
    \* ---- containers holding containers ----------------------------------
    store,      \* store[id]: the Array or Dictionary object id
    setsLeft,   \* Set calls still to come
    cloned      \* history: the last Clone or ShallowClone call

cloneVars == <<store, setsLeft, cloned>>

VARIABLES
    \* ---- one call of a name-escaping or line-formatting function --------
    fin,        \* the argument of the call
    fout        \* the function called and what it returned

fmtVars == <<fin, fout>>

VARIABLES
    \* ---- a Dictionary next to the finite map it stands for -------------
    amap,       \* the map: amap[k] is the value of key k, or Absent
    mcall       \* the last call: its arguments, what it returned, and the
                \* Dictionary and the map before it

mapVars == <<amap, mcall>>

VARIABLES
    \* ---- history of the OpenTSDB writer's failed writes ----------------
    tfail       \* failed: a write failed and no stream was stored since;
                \* inResult: a write of the check result in hand failed;
                \* dropped: a metric was dropped since the failure

tsdbVars == <<tfail>>

VARIABLES
    \* ---- ObjectLock instances on one Lockable ---------------------------
    m_Mutex,    \* the Lockable's recursive mutex: owning thread, hold count
    olock,      \* olock[i]: the ObjectLock instance i and its last calls
    contrib     \* history: contrib[i] = lock() calls less unlock() calls
                \* instance i has made on m_Mutex

lockVars == <<m_Mutex, olock, contrib>>

VARIABLES
    \* ---- Array::Clear against Array::Add --------------------------------
    sinceClear  \* history: the initial elements and the values of the Add
                \* calls published since, emptied by every Clear

clearVars == <<sinceClear>>

vars == <<rcuVars, dictVars, wrVars, fieldVars, cloneVars, fmtVars, mapVars,
          tsdbVars, lockVars, clearVars>>

(***************************************************************************)
(* Sequence helpers.                                                       *)
(***************************************************************************)
Last(s) == s[Len(s)]

\* std::vector::resize(n): truncate, or pad with empty values
Resize(data, n) ==
    [i \in 1..n |-> IF i <= Len(data) THEN data[i] ELSE Empty]

\* number of occurrences of v in s
Count(s, v) == Cardinality({i \in 1..Len(s) : s[i] = v})

(***************************************************************************)
(* rcu_ptr and Array.                                                      *)
(*                                                                         *)
(* ArrayData objects live in a heap indexed by address.  An object is      *)
(* freed when its last boost::shared_ptr goes away, and its address may    *)
(* then be handed out again.  Object 1 is the static EmptyArrayData.       *)
(***************************************************************************)
\* enough addresses for every shared_ptr that can exist at once
ObjIds == 1..(3 + 2 * Cardinality(Writers) + Cardinality(Readers))
Free == <<-2>>
NotPub == <<-1>>

\* the Array operations the writers call
ArrayOps(w) ==
    [kind : {"Add"}, idx : {0}, val : {ValOf[w]}]
      \cup [kind : {"SetField"}, idx : Idxs, val : {2}]

\* the operations by index and Sort
IndexOps(w) ==
    [kind : {"Set", "SetMove"}, idx : {0, 1}, val : {ValOf[w]}]
      \cup [kind : {"Insert"}, idx : 0..2, val : {ValOf[w]}]
      \cup [kind : {"Sort"}, idx : {0}, val : {Empty}]

NoOp == [kind |-> "none", idx |-> 0, val |-> Empty]

\* std::vector::insert(begin() + index, value), index <= size()
VecInsert(data, index, value) ==
    SubSeq(data, 1, index) \o <<value>> \o SubSeq(data, index + 1, Len(data))

\* std::copy(rbegin(), rend(), std::back_inserter(*data))
CopyReversed_Forward(ourData, data) == data \o ourData
CopyReversed(ourData, data) ==
    data \o [i \in 1..Len(ourData) |-> ourData[Len(ourData) + 1 - i]]

\* std::sort(begin(), end()) on numbers
RECURSIVE StdSort(_)
StdSort(data) ==
    IF data = << >> THEN << >>
    ELSE LET i == CHOOSE i \in 1..Len(data) :
                      \A j \in 1..Len(data) : data[i] <= data[j]
         IN  <<data[i]>> \o StdSort(SubSeq(data, 1, i - 1)
                                     \o SubSeq(data, i + 1, Len(data)))

\* data->at(index) throws std::out_of_range
Throws(op, data) == op.kind \in {"Set", "SetMove"} /\ op.idx >= Len(data)

\* Insert with index > data->size()
Beyond(op, data) == op.kind = "Insert" /\ op.idx > Len(data)

\* statements in the update lambda of operation op
NStmts(op) == IF op.kind = "SetField" THEN 2 ELSE 1

\* The buffer data after statement k of the update lambda of operation op:
\*   Add            data->push_back(value)
\*   SetFieldByName if (index >= data->size()) data->resize(index + 1);
\*                  data->at(index) = value
\*   Set            data->at(index) = value
\*   Set (move)     data->at(index).Swap(value)
\*   Insert         data->insert(data->begin() + index, value)
\*   Sort           std::sort(data->begin(), data->end())
FunStmt(op, k, data) ==
    CASE op.kind = "Add" -> Append(data, op.val)
      [] op.kind = "SetField" /\ k = 1 ->
            IF op.idx >= Len(data) THEN Resize(data, op.idx + 1) ELSE data
      [] op.kind = "SetField" /\ k = 2 -> [data EXCEPT ![op.idx + 1] = op.val]
      [] op.kind \in {"Set", "SetMove"} -> [data EXCEPT ![op.idx + 1] = op.val]
      [] op.kind = "Insert" -> VecInsert(data, op.idx, op.val)
      [] op.kind = "Sort" -> StdSort(data)
      [] OTHER -> data

\* The caller's value, which the lambda holds by reference, after the
\* statement: Swap leaves the replaced element in it
ValueAfter(op, data) ==
    IF op.kind = "SetMove" THEN data[op.idx + 1] ELSE op.val

\* the complete update of operation op
ApplyFun(op, data) ==
    IF NStmts(op) = 1 THEN FunStmt(op, 1, data)
    ELSE FunStmt(op, 2, FunStmt(op, 1, data))

\* the addresses some shared_ptr holds
Held(s, l, r, v, s0) ==
    {1, s, s0} \cup {l[w] : w \in Writers} \cup {r[w] : w \in Writers}
               \cup {v[x] : x \in Readers}

\* an address no shared_ptr holds
NewObj == CHOOSE id \in ObjIds : heap[id] = Free

\* the heap h with every object no shared_ptr holds freed
Collect(h, s, l, r, v, s0) ==
    [id \in ObjIds |-> IF id \in Held(s, l, r, v, s0) THEN h[id] ELSE Free]

\* Array::Array() shares EmptyArrayData; Array(data) owns a copy of data.
RcuInitFrom(ds, ops) ==
    /\ \E d \in ds :
         /\ sp = IF d = << >> THEN 1 ELSE 2
         /\ heap = [id \in ObjIds |-> IF id = 1 THEN << >>
                                      ELSE IF id = sp THEN d ELSE Free]
    /\ pub = [id \in ObjIds |-> IF id = sp THEN heap[id] ELSE NotPub]
    /\ sp0 = sp
    /\ wpc = [w \in Writers |-> "idle"]
    /\ wop = [w \in Writers |-> NoOp]
    /\ wsp_l = [w \in Writers |-> 0]
    /\ wr = [w \in Writers |-> 0]
    /\ opsLeft = ops
    /\ view = [r \in Readers |-> 0]
    /\ added = [v \in Vals |-> 0]
    /\ nonAdd = FALSE
    /\ stale = [w \in Writers |-> FALSE]

RcuInit == RcuInitFrom({<< >>, <<1>>}, MaxOps)
ArrayInit == RcuInitFrom({<< >>, <<1>>, <<2, 1>>}, MaxIndexOps)

\* Freed objects leave the heap and the publication history.
Sweep(h, p) ==
    /\ heap' = Collect(h, sp', wsp_l', wr', view', sp0')
    /\ pub' = [id \in ObjIds |->
                 IF id \in Held(sp', wsp_l', wr', view', sp0') THEN p[id] ELSE NotPub]

\* Array::GetView: rcu_ptr::read, one atomic load
GetView(r) ==
    /\ view' = [view EXCEPT ![r] = sp]
    /\ UNCHANGED <<sp, wpc, wop, wsp_l, wr, opsLeft, sp0, added, nonAdd,
                   stale>>
    /\ Sweep(heap, pub)

\* the reader drops its view
DropView(r) ==
    /\ view[r] # 0
    /\ view' = [view EXCEPT ![r] = 0]
    /\ UNCHANGED <<sp, wpc, wop, wsp_l, wr, opsLeft, sp0, added, nonAdd,
                   stale>>
    /\ Sweep(heap, pub)

\* a copy that aliases the snapshot it was to copy
MakeCopy_Alias(l) == l

\* boost::make_shared<T>(*sp_l): the address of the fresh copy of object l
MakeCopy(l) == NewObj

\* history: writer w loads sp into sp_l; writer w stores a snapshot in sp,
\* which every other writer inside copy_update has then not loaded
Loaded(w) == stale' = [stale EXCEPT ![w] = FALSE]
Published(w) == stale' = [x \in Writers |-> x # w /\ wpc[x] # "idle"]

\* Array::Add / Array::SetFieldByName enter copy_update: sp is loaded into
\* sp_l and r becomes a deep copy of *sp_l
BeginUpdate(w, op) ==
    /\ wpc[w] = "idle"
    /\ opsLeft > 0
    /\ wop' = [wop EXCEPT ![w] = op]
    /\ wsp_l' = [wsp_l EXCEPT ![w] = sp]
    /\ wr' = [wr EXCEPT ![w] = MakeCopy(sp)]
    /\ heap' = [heap EXCEPT ![MakeCopy(sp)] = heap[sp]]
    /\ wpc' = [wpc EXCEPT ![w] = "fun1"]
    /\ opsLeft' = opsLeft - 1
    /\ nonAdd' = (nonAdd \/ op.kind # "Add")
    /\ Loaded(w)
    /\ UNCHANGED <<sp, view, pub, sp0, added>>

\* the object the update lambda is handed: r.get(), the private copy
Buffer_Published(w) == wsp_l[w]
Buffer(w) == wr[w]

\* fun(r.get()): one statement of the update lambda, on the buffer r
RunFun(w) ==
    /\ wpc[w] \in {"fun1", "fun2"}
    /\ ~Throws(wop[w], heap[Buffer(w)])
    /\ ~Beyond(wop[w], heap[Buffer(w)])
    /\ LET k == IF wpc[w] = "fun1" THEN 1 ELSE 2
       IN  /\ heap' = [heap EXCEPT ![Buffer(w)] =
                                     FunStmt(wop[w], k, heap[Buffer(w)])]
           /\ wpc' = [wpc EXCEPT ![w] = IF k = NStmts(wop[w]) THEN "cas" ELSE "fun2"]
    /\ wop' = [wop EXCEPT ![w].val = ValueAfter(wop[w], heap[Buffer(w)])]
    /\ UNCHANGED <<sp, wsp_l, wr, opsLeft, view, pub, sp0, added, nonAdd,
                   stale>>

\* the call returns: history of the Add calls that have returned
Returned(w) ==
    /\ wpc' = [wpc EXCEPT ![w] = "idle"]
    /\ wop' = [wop EXCEPT ![w] = NoOp]
    /\ wsp_l' = [wsp_l EXCEPT ![w] = 0]
    /\ wr' = [wr EXCEPT ![w] = 0]
    /\ added' = IF wop[w].kind = "Add"
                THEN [added EXCEPT ![wop[w].val] = @ + 1] ELSE added

\* fun(r.get()) throws (std::out_of_range from data->at(index)): the
\* exception leaves copy_update, r and sp_l go away, nothing is published
FunThrows(w) ==
    /\ wpc[w] = "fun1"
    /\ Throws(wop[w], heap[Buffer(w)])
    /\ Returned(w)
    /\ UNCHANGED <<sp, opsLeft, view, sp0, nonAdd, stale>>
    /\ Sweep(heap, pub)

\* what a vector of n elements may hold after insert() was handed an
\* iterator past its end
Clobbered(n) == [1..(n + 1) -> {Empty} \cup Vals]

\* Insert with index > data->size().  A build with I2_DEBUG stops the
\* process in ASSERT; any other build has no check and runs insert() with
\* an iterator past the end, which is undefined: the buffer may hold
\* anything afterwards.
InsertBeyond(w) ==
    /\ wpc[w] = "fun1"
    /\ Beyond(wop[w], heap[Buffer(w)])
    /\ \/ /\ wpc' = [x \in Writers |-> "aborted"]
          /\ UNCHANGED heap
       \/ /\ \E d \in Clobbered(Len(heap[Buffer(w)])) :
                heap' = [heap EXCEPT ![Buffer(w)] = d]
          /\ wpc' = [wpc EXCEPT ![w] = "cas"]
    /\ UNCHANGED <<sp, wop, wsp_l, wr, opsLeft, view, pub, sp0, added, nonAdd,
                   stale>>

\* Array::Reverse: a new Array (sharing EmptyArrayData) gets the elements
\* of one view of the receiver, last first, by a copy_update no other
\* thread can see; the receiver's rcu_ptr is only read
ArrayReverse(w) ==
    /\ wpc[w] = "idle"
    /\ opsLeft > 0
    /\ opsLeft' = opsLeft - 1
    /\ fout' = [op |-> "Reverse", out |-> CopyReversed(heap[sp], heap[1])]
    /\ UNCHANGED <<heap, sp, wpc, wop, wsp_l, wr, view, pub, sp0, added,
                   nonAdd, stale, fin>>

\* a publication that stores without comparing
CompareExchange_Store(w) ==
    /\ wpc[w] = "cas"
    /\ sp' = wr[w]
    /\ Returned(w)
    /\ Published(w)
    /\ UNCHANGED <<opsLeft, view, sp0, nonAdd>>
    /\ Sweep(heap, [pub EXCEPT ![wr[w]] = heap[wr[w]]])

\* boost::atomic_compare_exchange_explicit fails: sp is not sp_l
CasFails_Spurious(w) == TRUE
CasFails(w) == sp # wsp_l[w]

\* boost::atomic_compare_exchange_explicit(&sp, &sp_l, std::move(r)):
\* publish r if sp is still sp_l, else reload sp_l and go round the loop
CompareExchange(w) ==
    /\ wpc[w] = "cas"
    /\ \/ /\ sp = wsp_l[w]
          /\ sp' = wr[w]
          /\ Returned(w)
          /\ Published(w)
          /\ UNCHANGED <<opsLeft, view, sp0, nonAdd>>
          /\ Sweep(heap, [pub EXCEPT ![wr[w]] = heap[wr[w]]])
       \/ /\ CasFails(w)
          /\ Loaded(w)
          /\ wsp_l' = [wsp_l EXCEPT ![w] = sp]
          /\ wr' = [wr EXCEPT ![w] = MakeCopy(sp)]
          /\ wpc' = [wpc EXCEPT ![w] = "fun1"]
          /\ UNCHANGED <<sp, wop, opsLeft, view, sp0, added, nonAdd>>
          /\ Sweep([heap EXCEPT ![MakeCopy(sp)] = heap[sp]], pub)

\* Array::Clear: m_Data = make_shared<ArrayData>(), i.e. rcu_ptr::reset
Clear(w) ==
    /\ wpc[w] = "idle"
    /\ opsLeft > 0
    /\ sp' = NewObj
    /\ opsLeft' = opsLeft - 1
    /\ nonAdd' = TRUE
    /\ Published(w)
    /\ UNCHANGED <<wpc, wop, wsp_l, wr, view, sp0, added>>
    /\ Sweep([heap EXCEPT ![NewObj] = << >>], [pub EXCEPT ![NewObj] = << >>])

\* Array::Add in one thread against Array::Clear in another.  The history
\* follows the order in which the snapshots are stored in sp: a successful
\* compare-exchange of an Add appends its value, the store of a Clear
\* empties it.
AddOps(w) == [kind : {"Add"}, idx : {0}, val : {ValOf[w]}]

ClearIdle == sinceClear = << >>

ClearInit == RcuInit /\ sinceClear = heap[sp]

Unrecorded == UNCHANGED sinceClear

AddPublishes(w) ==
    /\ CompareExchange(w)
    /\ sinceClear' = IF sp' # sp THEN Append(sinceClear, wop[w].val)
                                 ELSE sinceClear

ArrayClear(w) ==
    /\ Clear(w)
    /\ sinceClear' = << >>

(***************************************************************************)
(* Dictionary: a vector of (key, value) pairs kept sorted by key.          *)
(* Keys are byte strings, compared as String::operator< compares them.     *)
(***************************************************************************)
DictIds == {1, 2}
\* the keys "a", "ab" and "b"
Keys == {<<97>>, <<97, 98>>, <<98>>}
Pairs == [k : Keys, v : Vals]
PairLists == UNION {[1..n -> Pairs] : n \in 0..MaxPairs}
KeyLists == UNION {[1..n -> Keys] : n \in 0..MaxPairs}
\* the pair list with the keys ks, each with value v
WithValue(ks, v) == [i \in DOMAIN ks |-> [k |-> ks[i], v |-> v]]

\* String::operator<: lexicographic order on bytes
StrLess(a, b) ==
    \E i \in 1..(Len(b)) :
      /\ \A j \in 1..(i - 1) : j <= Len(a) /\ a[j] = b[j]
      /\ \/ i > Len(a)
         \/ i <= Len(a) /\ a[i] < b[i]

\* Dictionary::KeyLessComparer
KeyLessComparer(pair, key) == StrLess(pair.k, key)

\* a search that steps over the elements equal to key (std::upper_bound)
RECURSIVE LowerBound_Upper(_, _, _, _)
LowerBound_Upper(data, key, first, len) ==
    IF len <= 0 THEN first
    ELSE LET half == len \div 2
             mid == first + half
         IN  IF ~StrLess(key, data[mid].k)
             THEN LowerBound_Upper(data, key, mid + 1, len - half - 1)
             ELSE LowerBound_Upper(data, key, first, half)

\* std::lower_bound(first, first + len, key, KeyLessComparer): bisection
RECURSIVE LowerBound(_, _, _, _)
LowerBound(data, key, first, len) ==
    IF len <= 0 THEN first
    ELSE LET half == len \div 2
             mid == first + half
         IN  IF KeyLessComparer(data[mid], key)
             THEN LowerBound(data, key, mid + 1, len - half - 1)
             ELSE LowerBound(data, key, first, half)

\* std::vector::emplace(it, ...) and std::vector::erase(it)
InsertAt(data, it, pair) ==
    [i \in 1..(Len(data) + 1) |->
       IF i < it THEN data[i] ELSE IF i = it THEN pair ELSE data[i - 1]]
EraseAt(data, it) ==
    [i \in 1..(Len(data) - 1) |-> IF i < it THEN data[i] ELSE data[i + 1]]

\* the update lambda of Dictionary::Set
SetFun(data, key, value) ==
    LET it == LowerBound(data, key, 1, Len(data))
    IN  IF it <= Len(data) /\ data[it].k = key
        THEN [data EXCEPT ![it] = [k |-> key, v |-> value]]
        ELSE InsertAt(data, it, [k |-> key, v |-> value])

\* the update lambda of Dictionary::Remove
RemoveFun(data, key) ==
    LET it == LowerBound(data, key, 1, Len(data))
    IN  IF it <= Len(data) /\ data[it].k = key THEN EraseAt(data, it) ELSE data

\* What std::sort may leave: the standard fixes the order of the keys and
\* leaves the order of pairs with equal keys open.
SortOutcomes(data) ==
    LET n == Len(data)
        perm(p) == [i \in 1..n |-> data[p[i]]]
    IN  {perm(p) : p \in {q \in Permutations(1..n) :
                            \A i \in 1..(n - 1) :
                              ~StrLess(data[q[i + 1]].k, data[q[i]].k)}}

\* data.erase(std::unique(...), data.end()): of each run of pairs with equal
\* keys the first is kept
RECURSIVE Unique(_, _, _)
Unique(data, i, out) ==
    IF i > Len(data) THEN out
    ELSE IF out # << >> /\ Last(out).k = data[i].k
         THEN Unique(data, i + 1, out)
         ELSE Unique(data, i + 1, Append(out, data[i]))

\* Dictionary::CopyTo: dest->Set(kv.first, kv.second) for each pair of the view
RECURSIVE CopyFun(_, _, _)
CopyFun(view_, i, destData) ==
    IF i > Len(view_) THEN destData
    ELSE CopyFun(view_, i + 1, SetFun(destData, view_[i].k, view_[i].v))

\* Value::Clone of a value that is no object
CloneValue(v) == v

\* Dictionary::Dictionary() shares EmptyDictionaryData
DictInit ==
    /\ dct = [d \in DictIds |-> << >>]
    /\ ctorIn = << >>
    /\ ctorOf = 0

\* one constructor call on a pair list chosen at the start
CtorInit ==
    /\ dct = [d \in DictIds |-> << >>]
    /\ ctorIn \in PairLists
    /\ ctorOf = 0

\* Dictionary::Dictionary(DictionaryData data): sort, unique, publish
Construct(d, data) ==
    /\ \E sorted \in SortOutcomes(data) :
         dct' = [dct EXCEPT ![d] = Unique(sorted, 1, << >>)]
    /\ ctorOf' = IF ctorIn = data THEN d ELSE 0
    /\ UNCHANGED ctorIn

\* the history of the last constructor call ends with the next operation
Forget(d) ==
    /\ ctorOf' = IF ctorOf = d THEN 0 ELSE ctorOf
    /\ UNCHANGED ctorIn

\* Dictionary::Set
Set(d, key, value) ==
    /\ dct' = [dct EXCEPT ![d] = SetFun(dct[d], key, value)]
    /\ Forget(d)

\* Dictionary::Remove
Remove(d, key) ==
    /\ dct' = [dct EXCEPT ![d] = RemoveFun(dct[d], key)]
    /\ Forget(d)

\* Dictionary::Clear
DictClear(d) ==
    /\ dct' = [dct EXCEPT ![d] = << >>]
    /\ Forget(d)

\* Dictionary::CopyTo
CopyTo(d, dest) ==
    /\ dct' = [dct EXCEPT ![dest] = CopyFun(dct[d], 1, dct[dest])]
    /\ Forget(dest)

\* Dictionary::ShallowClone: new Dictionary(*GetView())
ShallowClone(d, new) ==
    /\ d # new
    /\ \E sorted \in SortOutcomes(dct[d]) :
         dct' = [dct EXCEPT ![new] = Unique(sorted, 1, << >>)]
    /\ Forget(new)

\* Dictionary::Clone: the pairs with cloned values, then the constructor
Clone(d, new) ==
    /\ d # new
    /\ \E sorted \in SortOutcomes([i \in 1..Len(dct[d]) |->
                          [k |-> dct[d][i].k, v |-> CloneValue(dct[d][i].v)]]) :
         dct' = [dct EXCEPT ![new] = Unique(sorted, 1, << >>)]
    /\ Forget(new)

(***************************************************************************)
(* Dictionary 1 used by one thread, next to a finite map.                  *)
(***************************************************************************)
Absent == -3
MapVals == {Empty} \cup Vals

\* Dictionary::Get(key)
DictGet(data, key) ==
    LET it == LowerBound(data, key, 1, Len(data))
    IN  IF it > Len(data) \/ data[it].k # key THEN Empty ELSE data[it].v

\* Dictionary::Get(key, result): the flag returned and *result, which is
\* left as it was (out) when the key is not found
DictGetOut(data, key, out) ==
    LET it == LowerBound(data, key, 1, Len(data))
    IN  IF it > Len(data) \/ data[it].k # key
        THEN [found |-> FALSE, result |-> out]
        ELSE [found |-> TRUE, result |-> data[it].v]

\* Dictionary::Contains(key)
DictContains(data, key) ==
    LET it == LowerBound(data, key, 1, Len(data))
    IN  it <= Len(data) /\ data[it].k = key

NoCallYet == [op |-> "none"]
MapIdle == amap = [k \in Keys |-> Absent] /\ mcall = NoCallYet

Called(op, key, value, ret) ==
    mcall' = [op |-> op, key |-> key, value |-> value, ret |-> ret,
              before |-> dct[1], was |-> amap]

MapSet(key, value) ==
    /\ Set(1, key, value)
    /\ amap' = [amap EXCEPT ![key] = value]
    /\ Called("Set", key, value, Empty)

MapRemove(key) ==
    /\ Remove(1, key)
    /\ amap' = [amap EXCEPT ![key] = Absent]
    /\ Called("Remove", key, Empty, Empty)

MapClear ==
    /\ DictClear(1)
    /\ amap' = [k \in Keys |-> Absent]
    /\ Called("Clear", << >>, Empty, Empty)

MapGet(key) ==
    /\ Called("Get", key, Empty, DictGet(dct[1], key))
    /\ UNCHANGED <<dictVars, amap>>

MapGetOut(key, out) ==
    /\ Called("GetOut", key, out, DictGetOut(dct[1], key, out))
    /\ UNCHANGED <<dictVars, amap>>

MapContains(key) ==
    /\ Called("Contains", key, Empty, DictContains(dct[1], key))
    /\ UNCHANGED <<dictVars, amap>>

(***************************************************************************)
(* Array::GetFieldByName and Array::SetFieldByName.                        *)
(*                                                                         *)
(* A field name is a string, modelled as a sequence of characters.         *)
(* Convert::ToLong (outside these sources) parses it as a decimal long: an *)
(* optional sign and at least one digit, nothing else, and a value that    *)
(* fits a long; otherwise it throws.  The result is stored in an int,      *)
(* which keeps its low IntBits bits.  long is as wide as int or twice as   *)
(* wide, depending on the build.                                           *)
(***************************************************************************)
Digits == <<"0", "1", "2", "3", "4", "5", "6", "7", "8", "9">>
Chars == {Digits[i] : i \in 1..10} \cup {"-", "+", "x"}
FieldNames == UNION {[1..n -> Chars] : n \in 1..MaxKey}

IsDigit(c) == \E i \in 1..10 : Digits[i] = c
DigitVal(c) == (CHOOSE i \in 1..10 : Digits[i] = c) - 1

\* the decimal value of a string of digits
RECURSIVE Decimal(_)
Decimal(s) ==
    IF s = << >> THEN 0
    ELSE 10 * Decimal(SubSeq(s, 1, Len(s) - 1)) + DigitVal(s[Len(s)])

\* the smallest and largest value of a signed integer of the given width
MinOf(bits) == -(2 ^ (bits - 1))
MaxOf(bits) == 2 ^ (bits - 1) - 1

\* Convert::ToLong(field): the parsed value, or a thrown exception
ToLong(field) ==
    LET signed == field[1] \in {"-", "+"}
        digits == IF signed THEN Tail(field) ELSE field
        n      == IF field[1] = "-" THEN -Decimal(digits) ELSE Decimal(digits)
    IN  IF /\ digits # << >>
           /\ \A i \in 1..Len(digits) : IsDigit(digits[i])
           /\ n >= MinOf(flong) /\ n <= MaxOf(flong)
          THEN [ok |-> TRUE, val |-> n]
          ELSE [ok |-> FALSE, val |-> 0]

\* int index = <long>: the conversion keeps the low IntBits bits
ToInt(n) == ((n - MinOf(IntBits)) % (2 ^ IntBits)) + MinOf(IntBits)

\* what a call did: it returned (a value, for Get), or an exception left it;
\* debugInfo tells whether the exception carries the caller's DebugInfo
Returns(v) == [kind |-> "returned", value |-> v, debugInfo |-> FALSE]
Threw(what, di) == [kind |-> what, value |-> Empty, debugInfo |-> di]

\* Array::GetFieldByName(field, sandboxed, debugInfo)
GetFieldOutcome(field, data) ==
    LET parsed == ToLong(field)
        index  == ToInt(parsed.val)
    IN  IF ~parsed.ok
          THEN [kind |-> "prototype", value |-> Empty, debugInfo |-> FALSE]
        ELSE IF index < 0 \/ index >= Len(data)
          THEN Threw("ScriptError", TRUE)
        ELSE Returns(data[index + 1])

\* Array::SetFieldByName(field, value, debugInfo): the exception of
\* Convert::ToLong is not caught
SetFieldOutcome(field) ==
    LET parsed == ToLong(field)
        index  == ToInt(parsed.val)
    IN  IF ~parsed.ok THEN Threw("ToLongError", FALSE)
        ELSE IF index < 0 THEN Threw("ScriptError", TRUE)
        ELSE Returns(Empty)

\* the snapshot SetFieldByName publishes
SetFieldData(field, v, data) ==
    IF SetFieldOutcome(field).kind = "returned"
      THEN ApplyFun([kind |-> "SetField", idx |-> ToInt(ToLong(field).val),
                     val |-> v], data)
      ELSE data

NoCall == [op |-> "none", field |-> << >>, value |-> Empty, before |-> << >>,
           out |-> Returns(Empty)]

FieldIdle == fdata = << >> /\ flong = IntBits /\ fcall = NoCall

\* an Array of up to MaxLen elements, in a build with a 32-bit or a 64-bit
\* long
FieldInit ==
    /\ fdata \in UNION {[1..n -> {Empty} \cup Vals] : n \in 0..MaxLen}
    /\ flong \in {IntBits, 2 * IntBits}
    /\ fcall = NoCall

GetFieldByName ==
    /\ fcall.op = "none"
    /\ \E field \in FieldNames :
         fcall' = [op |-> "get", field |-> field, value |-> Empty,
                   before |-> fdata, out |-> GetFieldOutcome(field, fdata)]
    /\ UNCHANGED <<fdata, flong>>

SetFieldByName ==
    /\ fcall.op = "none"
    /\ \E field \in FieldNames, v \in Vals :
         /\ fcall' = [op |-> "set", field |-> field, value |-> v,
                      before |-> fdata, out |-> SetFieldOutcome(field)]
         /\ fdata' = SetFieldData(field, v, fdata)
    /\ UNCHANGED flong

(***************************************************************************)
(* Clone and ShallowClone of containers that hold containers.              *)
(*                                                                         *)
(* An object is an Array or a Dictionary with its values in order (for a   *)
(* Dictionary: the values of its keys in key order; the operations below   *)
(* leave the keys alone).  A value is a number or empty, or a reference to *)
(* an object.  Value::Clone (outside these sources) returns a number as it *)
(* is and, for a reference, a reference to the Clone() of the object.      *)
(***************************************************************************)
StoreIds == 1..MaxObjs
Ref(id) == 10 + id
IsRef(v) == v > 10
Target(v) == v - 10

NoObj == [kind |-> "free", vals |-> << >>]

\* an address no object lives at
Fresh(st) == CHOOSE id \in StoreIds : st[id].kind = "free"

RECURSIVE CloneObj(_, _)
RECURSIVE CloneVals(_, _, _)

\* val.Clone(), as Clone() calls it for each element: st is the store
\* after the call, val the value returned
CloneElem_Copy(st, v) == [st |-> st, val |-> v]
CloneElem(st, v) ==
    IF IsRef(v)
      THEN LET c == CloneObj(st, Target(v))
           IN  [st |-> c.st, val |-> Ref(c.id)]
      ELSE [st |-> st, val |-> v]

\* the loop of Clone() over the first k values of a snapshot
CloneVals(st, vals, k) ==
    IF k = 0 THEN [st |-> st, vals |-> << >>]
    ELSE LET p == CloneVals(st, vals, k - 1)
             e == CloneElem(p.st, vals[k])
         IN  [st |-> e.st, vals |-> Append(p.vals, e.val)]

\* Array::Clone / Dictionary::Clone of object id: the elements are cloned
\* into result, then the new object is made from result
CloneObj(st, id) ==
    LET r == CloneVals(st, st[id].vals, Len(st[id].vals))
        n == Fresh(r.st)
    IN  [st |-> [r.st EXCEPT ![n] = [kind |-> st[id].kind, vals |-> r.vals]],
         id |-> n]

\* the objects reachable from object id, itself included
RECURSIVE Reach(_, _)
Reach(st, id) ==
    {id} \cup UNION {Reach(st, Target(st[id].vals[i])) :
                       i \in {j \in 1..Len(st[id].vals) : IsRef(st[id].vals[j])}}

\* everything a reader finds in object id and in the containers nested in
\* it, written out as one sequence
RECURSIVE Deep(_, _)
RECURSIVE DeepVals(_, _, _)
DeepVals(st, vals, k) ==
    IF k = 0 THEN << >>
    ELSE DeepVals(st, vals, k - 1) \o
           (IF IsRef(vals[k]) THEN Deep(st, Target(vals[k]))
                              ELSE <<vals[k]>>)
Deep(st, id) ==
    <<IF st[id].kind = "Array" THEN -1 ELSE -2>>
      \o DeepVals(st, st[id].vals, Len(st[id].vals)) \o <<-3>>

NoClone == [kind |-> "none", x |-> 0, c |-> 0, vals |-> << >>]

CloneIdle ==
    store = [id \in StoreIds |-> NoObj] /\ setsLeft = 0 /\ cloned = NoClone

\* object 1 holds a number and object 2, which holds a number or object 3
CloneInit ==
    /\ \E k1, k2 \in {"Array", "Dictionary"}, deep \in BOOLEAN :
         store = [id \in StoreIds |->
                    CASE id = 1 -> [kind |-> k1, vals |-> <<1, Ref(2)>>]
                      [] id = 2 -> [kind |-> k2,
                                    vals |-> IF deep THEN <<Ref(3), 2>>
                                                     ELSE <<2>>]
                      [] id = 3 /\ deep -> [kind |-> "Array", vals |-> <<1>>]
                      [] OTHER -> NoObj]
    /\ setsLeft = MaxSets
    /\ cloned = NoClone

\* Array::Clone() / Dictionary::Clone() of object 1
ObjClone ==
    /\ cloned.kind = "none"
    /\ LET c == CloneObj(store, 1)
       IN  /\ store' = c.st
           /\ cloned' = [kind |-> "deep", x |-> 1, c |-> c.id,
                         vals |-> store[1].vals]
    /\ UNCHANGED setsLeft

\* Array::ShallowClone() / Dictionary::ShallowClone() of object 1: a new
\* object made from a copy of the snapshot
ObjShallowClone ==
    /\ cloned.kind = "none"
    /\ LET n == Fresh(store)
       IN  /\ store' = [store EXCEPT ![n] = store[1]]
           /\ cloned' = [kind |-> "shallow", x |-> 1, c |-> n,
                         vals |-> store[1].vals]
    /\ UNCHANGED setsLeft

\* Array::Set(index, value) / Dictionary::Set(key, value) with a number or
\* the empty value, on any object
ObjSet ==
    /\ setsLeft > 0
    /\ setsLeft' = setsLeft - 1
    /\ \E id \in StoreIds :
         /\ store[id].kind # "free"
         /\ \E i \in 1..Len(store[id].vals), v \in {Empty} \cup Vals :
              store' = [store EXCEPT ![id].vals[i] = v]
    /\ UNCHANGED cloned

(***************************************************************************)
(* Metric names.                                                           *)
(*                                                                         *)
(* The writers build metric paths and tag values from host, service and    *)
(* perfdata-label names by chains of boost::replace_all calls.  A string   *)
(* is a TLA+ string; replace_all scans it once from the left, replacing    *)
(* each non-overlapping occurrence and never rescanning what it wrote.     *)
(***************************************************************************)
NameChars == <<" ", ".", "\\", "/", ":", "a">>

RECURSIVE StrsOf(_)
StrsOf(n) ==
    IF n = 0 THEN {""}
    ELSE {s \o NameChars[i] : s \in StrsOf(n - 1), i \in 1..Len(NameChars)}

Names == UNION {StrsOf(n) : n \in 0..MaxStr}

\* boost::algorithm::replace_all(str, from, to)
RECURSIVE ReplaceAll(_, _, _)
ReplaceAll(str, from, to) ==
    IF Len(str) < Len(from) THEN str
    ELSE IF SubSeq(str, 1, Len(from)) = from
         THEN to \o ReplaceAll(SubSeq(str, Len(from) + 1, Len(str)), from, to)
         ELSE SubSeq(str, 1, 1) \o ReplaceAll(Tail(str), from, to)

\* GraphiteWriter::EscapeMetric
EscapeMetric_NoSlash(str) ==
    ReplaceAll(ReplaceAll(ReplaceAll(str, " ", "_"), ".", "_"), "\\", "_")

EscapeMetric(str) ==
    ReplaceAll(ReplaceAll(ReplaceAll(ReplaceAll(str,
        " ", "_"), ".", "_"), "\\", "_"), "/", "_")

\* GraphiteWriter::EscapeMetricLabel
EscapeMetricLabel(str) ==
    ReplaceAll(ReplaceAll(ReplaceAll(ReplaceAll(str,
        " ", "_"), "\\", "_"), "/", "_"), "::", ".")

\* OpenTsdbWriter::EscapeTag
EscapeTag(str) ==
    ReplaceAll(ReplaceAll(str, " ", "_"), "\\", "_")

\* OpenTsdbWriter::EscapeMetric
TsdbEscapeMetric(str) ==
    ReplaceAll(ReplaceAll(ReplaceAll(ReplaceAll(str,
        " ", "_"), ".", "_"), "\\", "_"), ":", "_")

NoFmt == [op |-> "none"]
FmtIdle == fin = "" /\ fout = NoFmt

EscapeInit == fin \in Names /\ fout = NoFmt

CallEscapeMetric ==
    /\ fout.op = "none"
    /\ fout' = [op |-> "EscapeMetric", out |-> EscapeMetric(fin)]
    /\ UNCHANGED fin

CallEscapeMetricLabel ==
    /\ fout.op = "none"
    /\ fout' = [op |-> "EscapeMetricLabel", out |-> EscapeMetricLabel(fin)]
    /\ UNCHANGED fin

CallEscapeTag ==
    /\ fout.op = "none"
    /\ fout' = [op |-> "EscapeTag", out |-> EscapeTag(fin)]
    /\ UNCHANGED fin

CallTsdbEscapeMetric ==
    /\ fout.op = "none"
    /\ fout' = [op |-> "TsdbEscapeMetric", out |-> TsdbEscapeMetric(fin)]
    /\ UNCHANGED fin

(***************************************************************************)
(* Metric lines.                                                           *)
(*                                                                         *)
(* A number is a natural; a timestamp is a double counted in tenths of a   *)
(* second, which static_cast<long> truncates to whole seconds.  A perfdata *)
(* threshold is a Value: a number or the empty Value.                      *)
(***************************************************************************)
Tenths == 10
NoThreshold == -1

\* Convert::ToString of a whole number
RECURSIVE NumToString(_)
NumToString(n) ==
    IF n < 10 THEN Digits[n + 1]
    ELSE NumToString(n \div 10) \o Digits[(n % 10) + 1]

\* static_cast<long>(ts)
ToSeconds(ts) == ts \div Tenths

\* the Value in a condition (if (pdv->GetCrit())): the empty Value and 0
\* are false
IsTrue(v) == v # NoThreshold /\ v # 0

\* GraphiteWriter::SendMetric: the line handed to m_Stream->Write
GraphiteLine(prefix, name, value, ts) ==
    prefix \o "." \o name \o " " \o NumToString(value) \o " "
        \o NumToString(ToSeconds(ts)) \o "\n"

\* the lines of one perfdata element
GraphiteThreshold(prefix, key, suffix, v, ts) ==
    IF IsTrue(v) THEN <<GraphiteLine(prefix, key \o suffix, v, ts)>>
    ELSE << >>

GraphiteElement(prefix, pdv, thresholds, ts) ==
    IF ~pdv.valid THEN << >>
    ELSE LET escapedKey == EscapeMetricLabel(pdv.label)
         IN  <<GraphiteLine(prefix, escapedKey \o ".value", pdv.value, ts)>>
             \o (IF thresholds
                 THEN GraphiteThreshold(prefix, escapedKey, ".crit",
                                        pdv.crit, ts)
                      \o GraphiteThreshold(prefix, escapedKey, ".warn",
                                           pdv.warn, ts)
                      \o GraphiteThreshold(prefix, escapedKey, ".min",
                                           pdv.min, ts)
                      \o GraphiteThreshold(prefix, escapedKey, ".max",
                                           pdv.max, ts)
                 ELSE << >>)

\* GraphiteWriter::SendPerfdata on a connected stream whose writes succeed
RECURSIVE GraphiteSendPerfdata(_, _, _, _)
GraphiteSendPerfdata(prefix, perfdata, thresholds, ts) ==
    IF perfdata = << >> THEN << >>
    ELSE GraphiteElement(prefix, Head(perfdata), thresholds, ts)
         \o GraphiteSendPerfdata(prefix, Tail(perfdata), thresholds, ts)

Invalid == [valid |-> FALSE]
PerfdataValues ==
    {Invalid} \cup
    [valid : {TRUE}, label : {"rta", "a::b"}, value : {5},
     crit : {NoThreshold, 0, 20}, warn : {NoThreshold, 0, 10},
     min : {NoThreshold, 0, 1}, max : {NoThreshold, 0, 100}]

PerfdataInit ==
    /\ fin \in [prefix : {"icinga2.web01.host.perfdata"},
                perfdata : UNION {[1..n -> PerfdataValues] : n \in 0..MaxPerf},
                thresholds : BOOLEAN,
                ts : {16000, 16009}]
    /\ fout = NoFmt

CallGraphiteSendPerfdata ==
    /\ fout.op = "none"
    /\ fout' = [op |-> "SendPerfdata",
                out |-> GraphiteSendPerfdata(fin.prefix, fin.perfdata,
                                             fin.thresholds, fin.ts)]
    /\ UNCHANGED fin

\* std::map<String, String> tags: the keys in the order the map iterates
TagKeys == <<"host", "service", "type">>

\* OpenTsdbWriter::SendMetric: tags_string
RECURSIVE TagsFrom(_, _)
TagsFrom(tags, i) ==
    IF i > Len(TagKeys) THEN ""
    ELSE (IF TagKeys[i] \in DOMAIN tags
          THEN " " \o TagKeys[i] \o "=" \o tags[TagKeys[i]]
          ELSE "")
         \o TagsFrom(tags, i + 1)

TagsString(tags) == TagsFrom(tags, 1)

\* OpenTsdbWriter::SendMetric: the line handed to m_Stream->Write
TsdbLine(metric, tags, value, ts) ==
    "put " \o metric \o " " \o NumToString(ToSeconds(ts)) \o " "
        \o NumToString(value) \o " " \o TagsString(tags) \o "\n"

TsdbThreshold(metric, tags, v, ts) ==
    IF IsTrue(v) THEN <<TsdbLine(metric, tags, v, ts)>> ELSE << >>

\* OpenTsdbWriter::SendPerfdata on a connected stream whose writes succeed
RECURSIVE TsdbSendPerfdata(_, _, _, _)
TsdbSendPerfdata(metric, tags, perfdata, ts) ==
    IF perfdata = << >> THEN << >>
    ELSE LET pdv == Head(perfdata)
             escaped_key == ReplaceAll(TsdbEscapeMetric(pdv.label), "::", ".")
             name == metric \o "." \o escaped_key
         IN  (IF ~pdv.valid THEN << >>
              ELSE <<TsdbLine(name, tags, pdv.value, ts)>>
                   \o TsdbThreshold(name \o "_crit", tags, pdv.crit, ts)
                   \o TsdbThreshold(name \o "_warn", tags, pdv.warn, ts)
                   \o TsdbThreshold(name \o "_min", tags, pdv.min, ts)
                   \o TsdbThreshold(name \o "_max", tags, pdv.max, ts))
             \o TsdbSendPerfdata(metric, tags, Tail(perfdata), ts)

\* OpenTsdbWriter::CheckResultHandler, not paused, on a connected stream
\* whose writes succeed: the lines written
TsdbCheckResult(c) ==
    LET tags == [k \in {"host"} |-> EscapeTag(c.host)]
        metric == IF c.isService
                  THEN "icinga.service." \o TsdbEscapeMetric(c.service)
                  ELSE "icinga.host"
        checkTags ==
            IF c.isService
            THEN [k \in {"host", "type", "service"} |->
                    CASE k = "host" -> EscapeTag(c.host)
                      [] k = "type" -> "service"
                      [] k = "service" -> EscapeTag(c.service)]
            ELSE [k \in {"host", "type"} |->
                    IF k = "host" THEN EscapeTag(c.host) ELSE "host"]
    IN  <<TsdbLine(metric \o ".state", tags, c.state, c.ts),
          TsdbLine(metric \o ".state_type", tags, c.state_type, c.ts),
          TsdbLine(metric \o ".reachable", tags, c.reachable, c.ts),
          TsdbLine(metric \o ".downtime_depth", tags, c.downtime_depth, c.ts),
          TsdbLine(metric \o ".acknowledgement", tags, c.acknowledgement,
                   c.ts)>>
        \o TsdbSendPerfdata(metric, tags, c.perfdata, c.ts)
        \o <<TsdbLine("icinga.check.current_attempt", checkTags,
                      c.check_attempt, c.ts),
             TsdbLine("icinga.check.max_check_attempts", checkTags,
                      c.max_check_attempts, c.ts),
             TsdbLine("icinga.check.latency", checkTags, c.latency, c.ts),
             TsdbLine("icinga.check.execution_time", checkTags,
                      c.execution_time, c.ts)>>

SomePerfdata ==
    {Invalid,
     [valid |-> TRUE, label |-> "a::b", value |-> 5, crit |-> 20, warn |-> 0,
      min |-> NoThreshold, max |-> 100]}

CheckResults ==
    [host : {"db-01", "d b"},
     isService : {TRUE}, service : {"cpu", "c.p"},
     state : {0, 2}, state_type : {1}, reachable : {1},
     downtime_depth : {0}, acknowledgement : {0},
     perfdata : UNION {[1..n -> SomePerfdata] : n \in 0..MaxPerf},
     check_attempt : {1, 2}, max_check_attempts : {3}, latency : {0},
     execution_time : {0}, ts : {16000, 16009}]
    \cup
    [host : {"db-01", "d b"},
     isService : {FALSE}, service : {""},
     state : {0, 1}, state_type : {1}, reachable : {1},
     downtime_depth : {0}, acknowledgement : {0},
     perfdata : UNION {[1..n -> SomePerfdata] : n \in 0..MaxPerf},
     check_attempt : {1, 2}, max_check_attempts : {3}, latency : {0},
     execution_time : {0}, ts : {16000, 16009}]

TsdbLineInit == fin \in CheckResults /\ fout = NoFmt

CallTsdbCheckResult ==
    /\ fout.op = "none"
    /\ fout' = [op |-> "CheckResultHandler", out |-> TsdbCheckResult(fin)]
    /\ UNCHANGED fin

(***************************************************************************)
(* ObjectLock.                                                             *)
(*                                                                         *)
(* An instance lives on the stack of one thread.  Its target is the one    *)
(* Lockable (1) or empty (0).  Lock() is called as its ASSERT requires:    *)
(* on an instance with a target that does not hold the lock.               *)
(***************************************************************************)
LockIds == 1..MaxLocks
LockThreads == {"t1", "t2"}
Unowned == [owner |-> "none", count |-> 0]
NoLock == [state |-> "none", th |-> "none", m_Object |-> 0,
           m_Locked |-> FALSE, prev |-> "none", last |-> "none"]

LockIdle ==
    /\ m_Mutex = Unowned
    /\ olock = [i \in LockIds |-> NoLock]
    /\ contrib = [i \in LockIds |-> 0]

\* boost::recursive_mutex::lock() by thread t returns at once
CanLock(t) == m_Mutex.owner \in {"none", t}

\* m_Object->m_Mutex.lock() / unlock() called by instance i
MutexLock(i, t) ==
    /\ m_Mutex' = [owner |-> t, count |-> m_Mutex.count + 1]
    /\ contrib' = [contrib EXCEPT ![i] = @ + 1]

MutexUnlock(i) ==
    /\ m_Mutex' = IF m_Mutex.count = 1 THEN Unowned
                  ELSE [m_Mutex EXCEPT !.count = @ - 1]
    /\ contrib' = [contrib EXCEPT ![i] = @ - 1]

\* the instance after the call op
After(i, op, locked) ==
    olock' = [olock EXCEPT ![i].m_Locked = locked,
                           ![i].prev = olock[i].last,
                           ![i].last = op]

\* ObjectLock::ObjectLock(object): if (m_Object) Lock()
LockConstruct(i, t, object) ==
    /\ olock[i].state # "live"
    /\ object # 0 => CanLock(t)
    /\ olock' = [olock EXCEPT ![i] =
                    [state |-> "live", th |-> t, m_Object |-> object,
                     m_Locked |-> object # 0, prev |-> "none",
                     last |-> "ctor"]]
    /\ IF object # 0 THEN MutexLock(i, t) ELSE UNCHANGED <<m_Mutex, contrib>>

\* ObjectLock::Lock
Lock(i) ==
    /\ olock[i].state = "live"
    /\ ~olock[i].m_Locked /\ olock[i].m_Object # 0
    /\ CanLock(olock[i].th)
    /\ MutexLock(i, olock[i].th)
    /\ After(i, "Lock", TRUE)

\* the test in ObjectLock::Unlock
IsLocked_Always(i) == TRUE
IsLocked(i) == olock[i].m_Locked

\* ObjectLock::Unlock
Unlock(i) ==
    /\ olock[i].state = "live"
    /\ IF IsLocked(i) THEN MutexUnlock(i) ELSE UNCHANGED <<m_Mutex, contrib>>
    /\ After(i, "Unlock", FALSE)

\* ObjectLock::~ObjectLock: Unlock()
LockDestroy(i) ==
    /\ olock[i].state = "live"
    /\ IF IsLocked(i) THEN MutexUnlock(i) ELSE UNCHANGED <<m_Mutex, contrib>>
    /\ olock' = [olock EXCEPT ![i].state = "dead",
                              ![i].m_Locked = FALSE,
                              ![i].prev = olock[i].last,
                              ![i].last = "dtor"]

(***************************************************************************)
(* The perfdata writers.                                                   *)
(*                                                                         *)
(* Four threads touch a writer: the HA controller ("ctl") calling Resume   *)
(* and Pause, the timer thread ("tm") running ReconnectTimerHandler, an    *)
(* event producer ("ev") running CheckResultHandler once per subscription, *)
(* and, for Graphite, the work queue's worker ("wk").  Every step reads or *)
(* writes one piece of shared state, so the interleavings of the model are *)
(* those of the threads.                                                   *)
(*                                                                         *)
(* The work queue, the timer and the paused flag belong to classes outside *)
(* these sources.  The queue is a FIFO with one worker that passes a       *)
(* thrown exception to the exception callback and goes on; Join returns    *)
(* when the queue is empty and the worker idle (a worker that goes on      *)
(* running behaves in every way a stopped one can).  Resetting the timer   *)
(* prevents new ticks, a tick already running completes.  The paused flag  *)
(* is cleared during a Resume call and set during a Pause call, either by  *)
(* the base-class call inside the method or by the caller around it: both  *)
(* are modelled.                                                           *)
(***************************************************************************)
Threads == {"ctl", "tm", "ev", "wk"}

Goto(t, l) == pc' = [pc EXCEPT ![t] = l]

\* a NetworkStream object not referenced by m_Stream
NewStream == IF m_Stream = 1 THEN 2 ELSE 1

\* the record of written lines: nothing written yet, the first cap lines
\* will be recorded
NoLines(cap) == [cap |-> cap, task |-> 0, lines |-> << >>]

\* the worker begins a task that sends metric lines: it gets the number after
\* that of the last task that wrote a line
BeginTask ==
    IF Len(written.lines) < written.cap
      THEN [written EXCEPT !.task =
              IF written.lines = << >> THEN 1 ELSE Last(written.lines)[1] + 1]
      ELSE written

\* the worker's task wrote the line it counts as wleft
Record ==
    IF Len(written.lines) < written.cap
      THEN [written EXCEPT !.lines = Append(@, <<written.task, wleft>>)]
      ELSE written

WritersIdle ==
    /\ dialect = "none"
    /\ paused = TRUE
    /\ connected = FALSE
    /\ m_Stream = 0
    /\ sopen = FALSE
    /\ timer = FALSE
    /\ subs = 0
    /\ queue = << >>
    /\ pc = [t \in Threads |-> "idle"]
    /\ eleft = 0
    /\ wleft = 0
    /\ accepting = FALSE
    /\ oldTasks = 0
    /\ torn = "no"
    /\ writeErr = FALSE
    /\ opened = 0
    /\ written = NoLines(0)

\* a writer after OnConfigLoaded: not yet resumed, no stream, nothing queued
WritersInit(dialects, cap) ==
    /\ dialect \in dialects
    /\ paused = TRUE
    /\ connected = FALSE
    /\ m_Stream = 0
    /\ sopen = FALSE
    /\ timer = FALSE
    /\ subs = 0
    /\ queue = << >>
    /\ pc = [t \in Threads |-> "idle"]
    /\ eleft = 0
    /\ wleft = 0
    /\ accepting \in BOOLEAN
    /\ oldTasks = 0
    /\ torn = "no"
    /\ writeErr = FALSE
    /\ opened = 0
    /\ written = NoLines(cap)

\* the backend starts or stops accepting connections
Network ==
    /\ accepting' = ~accepting
    /\ UNCHANGED <<dialect, paused, connected, m_Stream, sopen, timer, subs,
                   queue, pc, eleft, wleft, oldTasks, torn, writeErr, opened,
                   written>>

\* WorkQueue::Enqueue
Enqueue(task) == queue' = Append(queue, task)

\* the worker returns from a task (or from the exception callback)
WkReturn ==
    /\ Goto("wk", "idle")
    /\ oldTasks' = IF oldTasks > 0 THEN oldTasks - 1 ELSE 0

(***************************************************************************)
(* GraphiteWriter.                                                         *)
(***************************************************************************)
\* Resume: base Resume, exception callback, timer started with an immediate
\* first tick, one more subscription to OnNewCheckResult
\* (n bounds the number of Resume calls of a behaviour)
ResumeWithin(n) ==
    /\ dialect = "graphite"
    /\ pc["ctl"] = "idle" /\ paused /\ subs < n
    /\ timer' = TRUE
    /\ subs' = subs + 1
    /\ oldTasks' = 0
    /\ \/ paused' = FALSE /\ UNCHANGED pc
       \/ UNCHANGED paused /\ Goto("ctl", "r_ret")
    /\ UNCHANGED <<dialect, connected, m_Stream, sopen, queue, eleft, wleft,
                   accepting, torn, writeErr, opened, written>>

Resume == ResumeWithin(MaxResume)

\* the caller of Resume clears the paused flag
ResumeReturn ==
    /\ pc["ctl"] = "r_ret"
    /\ paused' = FALSE
    /\ Goto("ctl", "idle")
    /\ UNCHANGED <<dialect, connected, m_Stream, sopen, timer, subs, queue,
                   eleft, wleft, accepting, oldTasks, torn, writeErr, opened,
                   written>>

\* Pause, first statement: m_ReconnectTimer.reset()
Pause ==
    /\ dialect = "graphite"
    /\ pc["ctl"] = "idle" /\ ~paused
    /\ timer' = FALSE
    /\ paused' \in {paused, TRUE}
    /\ oldTasks' = Len(queue) + (IF pc["wk"] = "idle" THEN 0 ELSE 1)
    /\ Goto("ctl", "ri_chk")
    /\ UNCHANGED <<dialect, connected, m_Stream, sopen, subs, queue, eleft,
                   wleft, accepting, torn, writeErr, opened, written>>

\* ReconnectInternal returns to its caller: the Reconnect task ends, Pause
\* goes on with Join
RIReturn(t) ==
    IF t = "wk" THEN WkReturn
    ELSE Goto(t, "p_join") /\ UNCHANGED oldTasks

\* ReconnectInternal rethrows: the worker runs the exception callback, Pause
\* catches, skips Join and DisconnectInternal and calls the base-class Pause
\* in its catch block
RIThrow_Stop(t) == Goto(t, "stopped") /\ UNCHANGED oldTasks
RIThrow(t) ==
    /\ Goto(t, IF t = "wk" THEN "exc_chk" ELSE "p_catch")
    /\ UNCHANGED oldTasks

\* GetConnected() as ReconnectInternal reads it
AlreadyConnected_Never == FALSE
AlreadyConnected == connected

\* ReconnectInternal: SetShouldConnect(true); if (GetConnected()) return
RICheck(t) ==
    /\ pc[t] = "ri_chk"
    /\ IF AlreadyConnected
         THEN RIReturn(t)
         ELSE Goto(t, "ri_conn") /\ UNCHANGED oldTasks
    /\ UNCHANGED <<dialect, paused, connected, m_Stream, sopen, timer, subs,
                   queue, eleft, wleft, accepting, torn, writeErr, opened,
                   written>>

\* m_Stream = new NetworkStream(socket)
StoreStream_FlagFirst(s) == connected' = TRUE /\ UNCHANGED <<m_Stream, sopen>>
StoreStream(s) == m_Stream' = s /\ sopen' = TRUE /\ UNCHANGED connected

\* ReconnectInternal: socket->Connect, then the stream is stored; a failed
\* Connect is logged and rethrown
RIConnect(t) ==
    /\ pc[t] = "ri_conn"
    /\ IF accepting
         THEN /\ StoreStream(NewStream)
              /\ opened' = IF opened < 2 THEN opened + 1 ELSE 2
              /\ Goto(t, "ri_setc")
              /\ UNCHANGED oldTasks
         ELSE /\ RIThrow(t)
              /\ UNCHANGED <<connected, m_Stream, sopen, opened>>
    /\ UNCHANGED <<dialect, paused, timer, subs, queue, eleft, wleft,
                   accepting, torn, writeErr, written>>

\* ReconnectInternal: SetConnected(true)
RISetConnected(t) ==
    /\ pc[t] = "ri_setc"
    /\ connected' = TRUE
    /\ opened' = 0
    /\ torn' = IF torn = "no" \/ t = "wk" THEN "no" ELSE "byPause"
    /\ RIReturn(t)
    /\ UNCHANGED <<dialect, paused, m_Stream, sopen, timer, subs, queue,
                   eleft, wleft, accepting, writeErr, written>>

\* Pause: m_WorkQueue.Join()
Join ==
    /\ pc["ctl"] = "p_join"
    /\ queue = << >> /\ pc["wk"] = "idle"
    /\ Goto("ctl", "d_chk")
    /\ UNCHANGED <<dialect, paused, connected, m_Stream, sopen, timer, subs,
                   queue, eleft, wleft, accepting, oldTasks, torn, writeErr,
                   opened, written>>

\* DisconnectInternal: if (!GetConnected()) return
DisconnectCheck ==
    /\ pc["ctl"] = "d_chk"
    /\ Goto("ctl", IF connected THEN "d_close" ELSE "p_base")
    /\ UNCHANGED <<dialect, paused, connected, m_Stream, sopen, timer, subs,
                   queue, eleft, wleft, accepting, oldTasks, torn, writeErr,
                   opened, written>>

\* DisconnectInternal: m_Stream->Close()
DisconnectClose ==
    /\ pc["ctl"] = "d_close"
    /\ sopen' = FALSE
    /\ Goto("ctl", "d_setc")
    /\ UNCHANGED <<dialect, paused, connected, m_Stream, timer, subs, queue,
                   eleft, wleft, accepting, oldTasks, torn, writeErr, opened,
                   written>>

\* DisconnectInternal: SetConnected(false)
DisconnectSetConnected ==
    /\ pc["ctl"] = "d_setc"
    /\ connected' = FALSE
    /\ Goto("ctl", "p_base")
    /\ UNCHANGED <<dialect, paused, m_Stream, sopen, timer, subs, queue,
                   eleft, wleft, accepting, oldTasks, torn, writeErr, opened,
                   written>>

\* Pause, last statement on both paths: the base-class Pause; the writer is
\* paused when the call returns
PauseReturn ==
    /\ pc["ctl"] \in {"p_base", "p_catch"}
    /\ paused' = TRUE
    /\ Goto("ctl", "idle")
    /\ UNCHANGED <<dialect, connected, m_Stream, sopen, timer, subs, queue,
                   eleft, wleft, accepting, oldTasks, torn, writeErr, opened,
                   written>>

\* if (IsPaused()) return, the first statement of ReconnectTimerHandler and
\* of CheckResultHandler in both writers
HandlerPaused_Never == FALSE
HandlerPaused == paused

\* ReconnectTimerHandler: if (IsPaused()) return
ReconnectTimerHandler ==
    /\ dialect = "graphite"
    /\ timer /\ pc["tm"] = "idle"
    /\ ~HandlerPaused
    /\ Goto("tm", "enq")
    /\ UNCHANGED <<dialect, paused, connected, m_Stream, sopen, timer, subs,
                   queue, eleft, wleft, accepting, oldTasks, torn, writeErr,
                   opened, written>>

\* ReconnectTimerHandler: m_WorkQueue.Enqueue(Reconnect)
TimerEnqueue ==
    /\ pc["tm"] = "enq"
    /\ Count(queue, "Reconnect") < MaxQueue
    /\ Enqueue("Reconnect")
    /\ Goto("tm", "idle")
    /\ UNCHANGED <<dialect, paused, connected, m_Stream, sopen, timer, subs,
                   eleft, wleft, accepting, oldTasks, torn, writeErr, opened,
                   written>>

\* a check result is published: the signal calls CheckResultHandler once per
\* subscription; each call begins with if (IsPaused()) return
CheckResultHandler ==
    /\ dialect = "graphite"
    /\ pc["ev"] = "idle"
    /\ eleft > 0 \/ subs > 0
    /\ LET n == IF eleft > 0 THEN eleft ELSE subs
       IN  IF HandlerPaused
             THEN eleft' = n - 1 /\ UNCHANGED pc
             ELSE eleft' = n /\ Goto("ev", "enq")
    /\ UNCHANGED <<dialect, paused, connected, m_Stream, sopen, timer, subs,
                   queue, wleft, accepting, oldTasks, torn, writeErr, opened,
                   written>>

\* CheckResultHandler: m_WorkQueue.Enqueue(CheckResultHandlerInternal)
HandlerEnqueue ==
    /\ pc["ev"] = "enq"
    /\ Count(queue, "CheckResult") < MaxQueue
    /\ Enqueue("CheckResult")
    /\ eleft' = eleft - 1
    /\ Goto("ev", "idle")
    /\ UNCHANGED <<dialect, paused, connected, m_Stream, sopen, timer, subs,
                   wleft, accepting, oldTasks, torn, writeErr, opened,
                   written>>

\* the worker takes the oldest task; a check result produces up to MaxLines
\* metric lines
Dequeue ==
    /\ pc["wk"] = "idle"
    /\ queue # << >>
    /\ queue' = Tail(queue)
    /\ IF Head(queue) = "Reconnect"
         THEN Goto("wk", "rc_chk") /\ UNCHANGED <<wleft, written>>
         ELSE /\ Goto("wk", "sm_chk")
              /\ wleft' \in 1..MaxLines
              /\ written' = BeginTask
    /\ UNCHANGED <<dialect, paused, connected, m_Stream, sopen, timer, subs,
                   eleft, accepting, oldTasks, torn, writeErr, opened>>

\* Reconnect: if (IsPaused()) ... else ReconnectInternal()
Reconnect ==
    /\ pc["wk"] = "rc_chk"
    /\ Goto("wk", IF paused THEN "rc_off" ELSE "ri_chk")
    /\ UNCHANGED <<dialect, paused, connected, m_Stream, sopen, timer, subs,
                   queue, eleft, wleft, accepting, oldTasks, torn, writeErr,
                   opened, written>>

\* Reconnect, paused: SetConnected(false); return
ReconnectPaused ==
    /\ pc["wk"] = "rc_off"
    /\ connected' = FALSE
    /\ WkReturn
    /\ UNCHANGED <<dialect, paused, m_Stream, sopen, timer, subs, queue,
                   eleft, wleft, accepting, torn, writeErr, opened, written>>

\* the worker is done with one metric line
NextLine_Repeat ==
    IF wleft > 1
      THEN wleft' = wleft /\ Goto("wk", "sm_chk") /\ UNCHANGED oldTasks
      ELSE wleft' = 0 /\ WkReturn
NextLine ==
    IF wleft > 1
      THEN wleft' = wleft - 1 /\ Goto("wk", "sm_chk") /\ UNCHANGED oldTasks
      ELSE wleft' = 0 /\ WkReturn

\* SendMetric: lock m_StreamMutex; if (!GetConnected()) return
SendMetric ==
    /\ pc["wk"] = "sm_chk"
    /\ IF connected
         THEN Goto("wk", "sm_write") /\ UNCHANGED <<wleft, oldTasks>>
         ELSE NextLine
    /\ UNCHANGED <<dialect, paused, connected, m_Stream, sopen, timer, subs,
                   queue, eleft, accepting, torn, writeErr, opened, written>>

\* SendMetric: m_Stream->Write succeeds on an open stream
WriteOk ==
    /\ pc["wk"] = "sm_write"
    /\ sopen
    /\ NextLine
    /\ written' = Record
    /\ UNCHANGED <<dialect, paused, connected, m_Stream, sopen, timer, subs,
                   queue, eleft, accepting, torn, writeErr, opened>>

\* SendMetric: m_Stream->Write fails (any write can, one on a closed stream
\* does); the exception is logged and rethrown
WriteFail ==
    /\ pc["wk"] = "sm_write"
    /\ Goto("wk", "exc_chk")
    /\ wleft' = 0
    /\ writeErr' = TRUE
    /\ UNCHANGED oldTasks
    /\ UNCHANGED <<dialect, paused, connected, m_Stream, sopen, timer, subs,
                   queue, eleft, accepting, torn, opened, written>>

\* the exception callback returns and the worker goes on
HandlerReturn ==
    /\ WkReturn
    /\ torn' = IF writeErr THEN "yes" ELSE torn
    /\ writeErr' = FALSE

\* ExceptionHandler: if (GetConnected())
ExceptionHandler ==
    /\ pc["wk"] = "exc_chk"
    /\ IF connected
         THEN Goto("wk", "exc_close") /\ UNCHANGED <<oldTasks, torn, writeErr>>
         ELSE HandlerReturn
    /\ UNCHANGED <<dialect, paused, connected, m_Stream, sopen, timer, subs,
                   queue, eleft, wleft, accepting, opened, written>>

\* ExceptionHandler: m_Stream->Close()
HandlerClose ==
    /\ pc["wk"] = "exc_close"
    /\ sopen' = FALSE
    /\ Goto("wk", "exc_setc")
    /\ UNCHANGED <<dialect, paused, connected, m_Stream, timer, subs, queue,
                   eleft, wleft, accepting, oldTasks, torn, writeErr, opened,
                   written>>

\* ExceptionHandler: SetConnected(false)
SetDisconnected_Skip == UNCHANGED connected
SetDisconnected == connected' = FALSE

HandlerSetConnected ==
    /\ pc["wk"] = "exc_setc"
    /\ SetDisconnected
    /\ HandlerReturn
    /\ UNCHANGED <<dialect, paused, m_Stream, sopen, timer, subs, queue,
                   eleft, wleft, accepting, opened, written>>

(***************************************************************************)
(* OpenTsdbWriter: no work queue and no connected flag.  The timer thread  *)
(* connects, the producer thread writes.                                   *)
(***************************************************************************)
\* Resume: base Resume, timer, subscription
TsdbResumeWithin(n) ==
    /\ dialect = "opentsdb"
    /\ pc["ctl"] = "idle" /\ paused /\ subs < n
    /\ timer' = TRUE
    /\ subs' = subs + 1
    /\ \/ paused' = FALSE /\ UNCHANGED pc
       \/ UNCHANGED paused /\ Goto("ctl", "r_ret")
    /\ UNCHANGED <<dialect, connected, m_Stream, sopen, queue, eleft, wleft,
                   accepting, oldTasks, torn, writeErr, opened, written>>

TsdbResume == TsdbResumeWithin(MaxResume)

\* Pause: m_ReconnectTimer.reset(); base Pause
TsdbPause ==
    /\ dialect = "opentsdb"
    /\ pc["ctl"] = "idle" /\ ~paused
    /\ timer' = FALSE
    /\ paused' = TRUE
    /\ UNCHANGED <<dialect, connected, m_Stream, sopen, subs, queue, pc,
                   eleft, wleft, accepting, oldTasks, torn, writeErr, opened,
                   written>>

\* ReconnectTimerHandler: if (IsPaused()) return; if (m_Stream) return
TsdbReconnectTimerHandler ==
    /\ dialect = "opentsdb"
    /\ timer /\ pc["tm"] = "idle"
    /\ ~HandlerPaused
    /\ m_Stream = 0
    /\ Goto("tm", "t_conn")
    /\ UNCHANGED <<dialect, paused, connected, m_Stream, sopen, timer, subs,
                   queue, eleft, wleft, accepting, oldTasks, torn, writeErr,
                   opened, written>>

\* ReconnectTimerHandler: Connect; a failure is logged and the handler
\* returns, otherwise the stream is stored
TsdbConnect ==
    /\ pc["tm"] = "t_conn"
    /\ IF accepting
         THEN m_Stream' = NewStream /\ sopen' = TRUE
         ELSE UNCHANGED <<m_Stream, sopen>>
    /\ Goto("tm", "idle")
    /\ UNCHANGED <<dialect, paused, connected, timer, subs, queue, eleft,
                   wleft, accepting, oldTasks, torn, writeErr, opened,
                   written>>

\* CheckResultHandler, on the producer's thread: if (IsPaused()) return
TsdbCheckResultHandler ==
    /\ dialect = "opentsdb"
    /\ pc["ev"] = "idle"
    /\ eleft > 0 \/ subs > 0
    /\ LET n == IF eleft > 0 THEN eleft ELSE subs
       IN  IF HandlerPaused
             THEN eleft' = n - 1 /\ UNCHANGED <<pc, wleft>>
             ELSE eleft' = n /\ Goto("ev", "ts_chk") /\ wleft' \in 1..MaxLines
    /\ UNCHANGED <<dialect, paused, connected, m_Stream, sopen, timer, subs,
                   queue, accepting, oldTasks, torn, writeErr, opened,
                   written>>

\* the handler is done with one metric line
TsdbNextLine ==
    IF wleft > 1
      THEN wleft' = wleft - 1 /\ Goto("ev", "ts_chk") /\ UNCHANGED eleft
      ELSE wleft' = 0 /\ Goto("ev", "idle") /\ eleft' = eleft - 1

\* SendMetric: the test of the stream handle
HasStream_Always == TRUE
HasStream == m_Stream # 0

\* SendMetric: ObjectLock olock(this); if (!m_Stream) return
TsdbSendMetric ==
    /\ pc["ev"] = "ts_chk"
    /\ IF HasStream
         THEN Goto("ev", "ts_write") /\ UNCHANGED <<wleft, eleft>>
         ELSE TsdbNextLine
    /\ UNCHANGED <<dialect, paused, connected, m_Stream, sopen, timer, subs,
                   queue, accepting, oldTasks, torn, writeErr, opened,
                   written>>

\* SendMetric: m_Stream->Write succeeds
TsdbWriteOk ==
    /\ pc["ev"] = "ts_write"
    /\ m_Stream # 0 /\ sopen
    /\ TsdbNextLine
    /\ UNCHANGED <<dialect, paused, connected, m_Stream, sopen, timer, subs,
                   queue, accepting, oldTasks, torn, writeErr, opened,
                   written>>

\* SendMetric: m_Stream->Write fails; the exception is logged and the stream
\* dropped with m_Stream.reset()
TsdbWriteFail ==
    /\ pc["ev"] = "ts_write"
    /\ m_Stream' = 0 /\ sopen' = FALSE
    /\ TsdbNextLine
    /\ UNCHANGED <<dialect, paused, connected, timer, subs, queue, accepting,
                   oldTasks, torn, writeErr, opened, written>>

\* The thread holding the lock SendMetric takes: Graphite's scoped_lock on
\* m_StreamMutex and OpenTSDB's ObjectLock on the writer are taken before
\* the test of the stream and given up when SendMetric is left; no other
\* function takes either.
StreamLockHolder ==
    IF dialect = "graphite" /\ pc["wk"] = "sm_write" THEN "wk"
    ELSE IF dialect = "opentsdb" /\ pc["ev"] = "ts_write" THEN "ev"
    ELSE "none"

(***************************************************************************)
(* The OpenTSDB writer with the history of its failed writes.              *)
(***************************************************************************)
NoFailure == [failed |-> FALSE, inResult |-> FALSE, dropped |-> FALSE]
TsdbIdle == tfail = NoFailure

\* the history after a step in which a write fails, a metric is dropped or
\* neither: a stored stream ends "failed", the handler's return "inResult"
Track(fails, drops) ==
    tfail' = [failed |-> IF m_Stream' # 0 /\ m_Stream = 0 THEN FALSE
                         ELSE tfail.failed \/ fails,
              inResult |-> (tfail.inResult \/ fails) /\ pc'["ev"] # "idle",
              dropped |-> IF fails \/ (m_Stream' # 0 /\ m_Stream = 0)
                          THEN FALSE ELSE tfail.dropped \/ drops]

(***************************************************************************)
(* Specifications.                                                         *)
(***************************************************************************)
\* the Array cell of the other specifications: default-constructed, unused
RcuIdle ==
    /\ sp = 1
    /\ heap = [id \in ObjIds |-> IF id = 1 THEN << >> ELSE Free]
    /\ pub = [id \in ObjIds |-> IF id = 1 THEN << >> ELSE NotPub]
    /\ sp0 = 1
    /\ wpc = [w \in Writers |-> "idle"]
    /\ wop = [w \in Writers |-> NoOp]
    /\ wsp_l = [w \in Writers |-> 0]
    /\ wr = [w \in Writers |-> 0]
    /\ opsLeft = 0
    /\ view = [r \in Readers |-> 0]
    /\ added = [v \in Vals |-> 0]
    /\ nonAdd = FALSE
    /\ stale = [w \in Writers |-> FALSE]

RcuOnly == UNCHANGED <<dictVars, wrVars, fieldVars, cloneVars, fmtVars,
                       mapVars, tsdbVars, lockVars, clearVars>>
DictOnly == UNCHANGED <<rcuVars, wrVars, fieldVars, cloneVars, fmtVars,
                        mapVars, tsdbVars, lockVars, clearVars>>
WritersOnly == UNCHANGED <<rcuVars, dictVars, fieldVars, cloneVars, fmtVars,
                           mapVars, tsdbVars, lockVars, clearVars>>
FieldOnly == UNCHANGED <<rcuVars, dictVars, wrVars, cloneVars, fmtVars,
                         mapVars, tsdbVars, lockVars, clearVars>>
CloneOnly == UNCHANGED <<rcuVars, dictVars, wrVars, fieldVars, fmtVars,
                         mapVars, tsdbVars, lockVars, clearVars>>
ReverseOnly == UNCHANGED <<dictVars, wrVars, fieldVars, cloneVars, mapVars,
                           tsdbVars, lockVars, clearVars>>
FmtOnly == UNCHANGED <<rcuVars, dictVars, wrVars, fieldVars, cloneVars,
                       mapVars, tsdbVars, lockVars, clearVars>>
MapOnly == UNCHANGED <<rcuVars, wrVars, fieldVars, cloneVars, fmtVars,
                       tsdbVars, lockVars, clearVars>>
TsdbOnly == UNCHANGED <<rcuVars, dictVars, fieldVars, cloneVars, fmtVars,
                        mapVars, lockVars, clearVars>>
LockOnly == UNCHANGED <<rcuVars, dictVars, wrVars, fieldVars, cloneVars,
                        fmtVars, mapVars, tsdbVars, clearVars>>
ClearOnly == UNCHANGED <<dictVars, wrVars, fieldVars, cloneVars, fmtVars,
                         mapVars, tsdbVars, lockVars>>

NextRcu ==
    \/ \E r \in Readers : GetView(r) /\ RcuOnly
    \/ \E r \in Readers : DropView(r) /\ RcuOnly
    \/ \E w \in Writers : \E op \in ArrayOps(w) : BeginUpdate(w, op) /\ RcuOnly
    \/ \E w \in Writers : RunFun(w) /\ RcuOnly
    \/ \E w \in Writers : CompareExchange(w) /\ RcuOnly
    \/ \E w \in Writers : Clear(w) /\ RcuOnly

NextDict ==
    \/ \E ks \in KeyLists, v \in Vals : Construct(1, WithValue(ks, v)) /\ DictOnly
    \/ \E d \in DictIds, key \in Keys, value \in Vals : Set(d, key, value) /\ DictOnly
    \/ \E d \in DictIds, key \in Keys : Remove(d, key) /\ DictOnly
    \/ \E d \in DictIds : DictClear(d) /\ DictOnly
    \/ \E d \in DictIds, dest \in DictIds : CopyTo(d, dest) /\ DictOnly
    \/ \E d \in DictIds, new \in DictIds : ShallowClone(d, new) /\ DictOnly
    \/ \E d \in DictIds, new \in DictIds : Clone(d, new) /\ DictOnly

NextCtor ==
    \E d \in DictIds : ctorOf = 0 /\ Construct(d, ctorIn) /\ DictOnly

\* the steps of the worker thread while the writer is not paused
WorkerRunning ==
    \/ Dequeue /\ WritersOnly
    \/ Reconnect /\ WritersOnly
    \/ RICheck("wk") /\ WritersOnly
    \/ RIConnect("wk") /\ WritersOnly
    \/ RISetConnected("wk") /\ WritersOnly
    \/ SendMetric /\ WritersOnly
    \/ WriteOk /\ WritersOnly
    \/ WriteFail /\ WritersOnly
    \/ ExceptionHandler /\ WritersOnly
    \/ HandlerClose /\ WritersOnly
    \/ HandlerSetConnected /\ WritersOnly

\* the steps of the worker thread
Worker ==
    \/ WorkerRunning
    \/ ReconnectPaused /\ WritersOnly

\* the steps of the timer thread
Timer ==
    \/ ReconnectTimerHandler /\ WritersOnly
    \/ TimerEnqueue /\ WritersOnly

\* the steps of the event producer
Producer ==
    \/ CheckResultHandler /\ WritersOnly
    \/ HandlerEnqueue /\ WritersOnly

\* the steps of the HA controller
Controller ==
    \/ Resume /\ WritersOnly
    \/ ResumeReturn /\ WritersOnly
    \/ Pause /\ WritersOnly
    \/ RICheck("ctl") /\ WritersOnly
    \/ RIConnect("ctl") /\ WritersOnly
    \/ RISetConnected("ctl") /\ WritersOnly
    \/ Join /\ WritersOnly
    \/ DisconnectCheck /\ WritersOnly
    \/ DisconnectClose /\ WritersOnly
    \/ DisconnectSetConnected /\ WritersOnly
    \/ PauseReturn /\ WritersOnly

OpenTsdb ==
    \/ TsdbResume /\ WritersOnly
    \/ TsdbPause /\ WritersOnly
    \/ TsdbReconnectTimerHandler /\ WritersOnly
    \/ TsdbConnect /\ WritersOnly
    \/ TsdbCheckResultHandler /\ WritersOnly
    \/ TsdbSendMetric /\ WritersOnly
    \/ TsdbWriteOk /\ WritersOnly
    \/ TsdbWriteFail /\ WritersOnly

NextWriters ==
    \/ Network /\ WritersOnly
    \/ Controller
    \/ Timer
    \/ Producer
    \/ Worker
    \/ OpenTsdb

\* a writer of either kind that is resumed, paused and resumed again
NextCycles ==
    \/ Network /\ WritersOnly
    \/ ResumeWithin(MaxCycles) /\ WritersOnly
    \/ ResumeReturn /\ WritersOnly
    \/ Pause /\ WritersOnly
    \/ RICheck("ctl") /\ WritersOnly
    \/ RIConnect("ctl") /\ WritersOnly
    \/ RISetConnected("ctl") /\ WritersOnly
    \/ Join /\ WritersOnly
    \/ DisconnectCheck /\ WritersOnly
    \/ DisconnectClose /\ WritersOnly
    \/ DisconnectSetConnected /\ WritersOnly
    \/ PauseReturn /\ WritersOnly
    \/ Timer
    \/ Producer
    \/ Worker
    \/ TsdbResumeWithin(MaxCycles) /\ WritersOnly
    \/ TsdbPause /\ WritersOnly
    \/ TsdbReconnectTimerHandler /\ WritersOnly
    \/ TsdbConnect /\ WritersOnly
    \/ TsdbCheckResultHandler /\ WritersOnly
    \/ TsdbSendMetric /\ WritersOnly
    \/ TsdbWriteOk /\ WritersOnly
    \/ TsdbWriteFail /\ WritersOnly

\* a Graphite writer that is resumed and never paused
NextRun ==
    \/ Network /\ WritersOnly
    \/ Resume /\ WritersOnly
    \/ ResumeReturn /\ WritersOnly
    \/ Timer
    \/ Producer
    \/ WorkerRunning

\* the containers no writer uses
Unused == RcuIdle /\ DictInit /\ FieldIdle /\ CloneIdle /\ FmtIdle /\ MapIdle
    /\ TsdbIdle /\ LockIdle /\ ClearIdle

InitRcu == RcuInit /\ DictInit /\ WritersIdle /\ FieldIdle /\ CloneIdle
    /\ FmtIdle /\ MapIdle /\ TsdbIdle /\ LockIdle /\ ClearIdle
InitDict == DictInit /\ RcuIdle /\ WritersIdle /\ FieldIdle /\ CloneIdle
    /\ FmtIdle /\ MapIdle /\ TsdbIdle /\ LockIdle /\ ClearIdle
InitCtor == CtorInit /\ RcuIdle /\ WritersIdle /\ FieldIdle /\ CloneIdle
    /\ FmtIdle /\ MapIdle /\ TsdbIdle /\ LockIdle /\ ClearIdle
InitWriters == WritersInit({"graphite", "opentsdb"}, 0) /\ Unused
InitRun == WritersInit({"graphite"}, 0) /\ Unused
InitOrder == WritersInit({"graphite"}, MaxSent) /\ Unused
InitField == FieldInit /\ RcuIdle /\ DictInit /\ WritersIdle /\ CloneIdle
    /\ FmtIdle /\ MapIdle /\ TsdbIdle /\ LockIdle /\ ClearIdle
InitEscape == EscapeInit /\ RcuIdle /\ DictInit /\ WritersIdle /\ FieldIdle
    /\ CloneIdle /\ MapIdle /\ TsdbIdle /\ LockIdle /\ ClearIdle
InitPerfdata == PerfdataInit /\ RcuIdle /\ DictInit /\ WritersIdle
    /\ FieldIdle /\ CloneIdle /\ MapIdle /\ TsdbIdle /\ LockIdle /\ ClearIdle
InitTsdbLine == TsdbLineInit /\ RcuIdle /\ DictInit /\ WritersIdle
    /\ FieldIdle /\ CloneIdle /\ MapIdle /\ TsdbIdle /\ LockIdle /\ ClearIdle
InitArray == ArrayInit /\ DictInit /\ WritersIdle /\ FieldIdle /\ CloneIdle
    /\ FmtIdle /\ MapIdle /\ TsdbIdle /\ LockIdle /\ ClearIdle
InitMap == DictInit /\ MapIdle /\ RcuIdle /\ WritersIdle /\ FieldIdle
    /\ CloneIdle /\ FmtIdle /\ TsdbIdle /\ LockIdle /\ ClearIdle
InitTsdb == WritersInit({"opentsdb"}, 0) /\ Unused
InitLock == LockIdle /\ RcuIdle /\ DictInit /\ WritersIdle /\ FieldIdle
    /\ CloneIdle /\ FmtIdle /\ MapIdle /\ TsdbIdle /\ ClearIdle
InitClone == CloneInit /\ RcuIdle /\ DictInit /\ WritersIdle /\ FieldIdle
    /\ FmtIdle /\ MapIdle /\ TsdbIdle /\ LockIdle /\ ClearIdle

SpecRcu == InitRcu /\ [][NextRcu]_vars

SpecDict == InitDict /\ [][NextDict]_vars

SpecCtor == InitCtor /\ [][NextCtor]_vars

SpecWriters == InitWriters /\ [][NextWriters]_vars

InitCycles == WritersInit({"graphite", "opentsdb"}, 0) /\ Unused

SpecCycles == InitCycles /\ [][NextCycles]_vars

\* the controller completes Resume, the timer fires every interval and the
\* worker thread runs
SpecRun ==
    /\ InitRun /\ [][NextRun]_vars
    /\ WF_vars((Resume \/ ResumeReturn) /\ WritersOnly)
    /\ WF_vars(Timer)
    /\ WF_vars(WorkerRunning)

\* the running Graphite writer, with the lines it writes recorded
SpecOrder == InitOrder /\ [][NextRun]_vars

\* Add and Clear calls of the writers, with a reader
NextClear ==
    \/ \E r \in Readers : GetView(r) /\ Unrecorded /\ ClearOnly
    \/ \E r \in Readers : DropView(r) /\ Unrecorded /\ ClearOnly
    \/ \E w \in Writers : \E op \in AddOps(w) :
          BeginUpdate(w, op) /\ Unrecorded /\ ClearOnly
    \/ \E w \in Writers : RunFun(w) /\ Unrecorded /\ ClearOnly
    \/ \E w \in Writers : AddPublishes(w) /\ ClearOnly
    \/ \E w \in Writers : ArrayClear(w) /\ ClearOnly

InitClear == ClearInit /\ DictInit /\ WritersIdle /\ FieldIdle /\ CloneIdle
    /\ FmtIdle /\ MapIdle /\ TsdbIdle /\ LockIdle

SpecClear == InitClear /\ [][NextClear]_vars

NextField ==
    \/ GetFieldByName /\ FieldOnly
    \/ SetFieldByName /\ FieldOnly

\* the writers of the cell
NextUpdate ==
    \/ \E w \in Writers : \E op \in ArrayOps(w) : BeginUpdate(w, op) /\ RcuOnly
    \/ \E w \in Writers : RunFun(w) /\ RcuOnly
    \/ \E w \in Writers : CompareExchange(w) /\ RcuOnly
    \/ \E w \in Writers : Clear(w) /\ RcuOnly

TsdbStep(A) == A /\ Track(FALSE, FALSE) /\ TsdbOnly

NextTsdb ==
    \/ TsdbStep(Network)
    \/ TsdbStep(TsdbResume)
    \/ TsdbStep(TsdbPause)
    \/ TsdbStep(TsdbReconnectTimerHandler)
    \/ TsdbStep(TsdbConnect)
    \/ TsdbStep(TsdbCheckResultHandler)
    \/ TsdbSendMetric /\ Track(FALSE, ~HasStream) /\ TsdbOnly
    \/ TsdbStep(TsdbWriteOk)
    \/ TsdbWriteFail /\ Track(TRUE, FALSE) /\ TsdbOnly

NextMap ==
    \/ \E key \in Keys, value \in MapVals : MapSet(key, value) /\ MapOnly
    \/ \E key \in Keys : MapRemove(key) /\ MapOnly
    \/ MapClear /\ MapOnly
    \/ \E key \in Keys : MapGet(key) /\ MapOnly
    \/ \E key \in Keys, out \in MapVals : MapGetOut(key, out) /\ MapOnly
    \/ \E key \in Keys : MapContains(key) /\ MapOnly

SpecTsdb == InitTsdb /\ [][NextTsdb]_vars

NextLock ==
    \/ \E i \in LockIds, t \in LockThreads, object \in {0, 1} :
          LockConstruct(i, t, object) /\ LockOnly
    \/ \E i \in LockIds : Lock(i) /\ LockOnly
    \/ \E i \in LockIds : Unlock(i) /\ LockOnly
    \/ \E i \in LockIds : LockDestroy(i) /\ LockOnly

SpecLock == InitLock /\ [][NextLock]_vars

SpecMap == InitMap /\ [][NextMap]_vars

NextArray ==
    \/ \E w \in Writers : \E op \in IndexOps(w) : BeginUpdate(w, op) /\ RcuOnly
    \/ \E w \in Writers : RunFun(w) /\ RcuOnly
    \/ \E w \in Writers : FunThrows(w) /\ RcuOnly
    \/ \E w \in Writers : InsertBeyond(w) /\ RcuOnly
    \/ \E w \in Writers : ArrayReverse(w) /\ ReverseOnly
    \/ \E w \in Writers : CompareExchange(w) /\ RcuOnly

SpecArray == InitArray /\ [][NextArray]_vars

\* every writer thread inside copy_update goes on running
SpecUpdate ==
    /\ InitRcu /\ [][NextUpdate]_vars
    /\ \A w \in Writers : WF_vars((RunFun(w) \/ CompareExchange(w)) /\ RcuOnly)

\* one call of GetFieldByName or SetFieldByName on an Array
SpecField == InitField /\ [][NextField]_vars

NextClone ==
    \/ ObjClone /\ CloneOnly
    \/ ObjShallowClone /\ CloneOnly
    \/ ObjSet /\ CloneOnly

\* a container holding containers is cloned, and the objects are mutated
SpecClone == InitClone /\ [][NextClone]_vars

NextEscape ==
    \/ CallEscapeMetric /\ FmtOnly
    \/ CallEscapeMetricLabel /\ FmtOnly
    \/ CallEscapeTag /\ FmtOnly
    \/ CallTsdbEscapeMetric /\ FmtOnly

SpecEscape == InitEscape /\ [][NextEscape]_vars

NextPerfdata == CallGraphiteSendPerfdata /\ FmtOnly

SpecPerfdata == InitPerfdata /\ [][NextPerfdata]_vars

NextTsdbLine == CallTsdbCheckResult /\ FmtOnly

SpecTsdbLine == InitTsdbLine /\ [][NextTsdbLine]_vars

(***************************************************************************)
(* Properties of the rcu_ptr cell (checked under SpecRcu).                 *)
(***************************************************************************)
Quiescent == \A w \in Writers : wpc[w] = "idle"

\* the published snapshot, and every snapshot a reader holds, still has the
\* contents it was published with
SnapshotsIntact ==
    /\ pub[sp] # NotPub /\ heap[sp] = pub[sp]
    /\ \A r \in Readers :
         view[r] # 0 => pub[view[r]] # NotPub /\ heap[view[r]] = pub[view[r]]

\* a step that changes sp publishes an empty snapshot (reset) or the complete
\* update of one writer applied to the snapshot it replaces (copy_update)
PublishesWhole ==
    sp' # sp =>
      \/ pub[sp'] = NotPub /\ heap'[sp'] = << >> /\ opsLeft' = opsLeft - 1
      \/ \E w \in Writers :
           /\ wpc[w] = "cas" /\ wpc'[w] = "idle"
           /\ sp' = wr[w]
           /\ heap'[sp'] = ApplyFun(wop[w], heap[sp])

\* C1: every value a reader obtains from read/GetView is a snapshot that was
\* published in full: the initial snapshot, an empty snapshot stored by
\* Clear, or the complete result of one writer's update applied to the
\* snapshot it replaced; it never changes while the reader holds it.
C1_PublicationAtomic == []SnapshotsIntact /\ [][PublishesWhole]_vars

\* a reader holds the snapshot a writer loaded while that writer's private
\* buffer is resized but not yet assigned
C1_Witness ==
    \E r \in Readers, w \in Writers :
      /\ view[r] # 0
      /\ wpc[w] = "fun2"
      /\ wsp_l[w] = view[r]
      /\ heap[wr[w]] # heap[view[r]]
      /\ sp # view[r]

\* C2: when only Add calls were made and all of them have returned, the
\* published snapshot is the initial one followed by every added value:
\* its length is the initial length plus the number of calls, and each
\* value occurs as often as it was added.
C2_NoLostAdd ==
    (Quiescent /\ ~nonAdd) =>
      LET cur == heap[sp]
          ini == pub[sp0]
      IN  /\ Len(cur) = Len(ini) + added[1] + added[2]
          /\ SubSeq(cur, 1, Len(ini)) = ini
          /\ \A v \in Vals : Count(cur, v) = Count(ini, v) + added[v]

\* both writers have added, MaxOps calls in all, and all have returned
C2_Witness ==
    /\ Quiescent /\ ~nonAdd
    /\ added[1] >= 1 /\ added[2] >= 1
    /\ added[1] + added[2] = MaxOps
    /\ Len(heap[sp]) = Len(pub[sp0]) + MaxOps

(***************************************************************************)
(* Properties of Dictionary (checked under SpecDict and SpecCtor).         *)
(***************************************************************************)
StrictlyAscending(data) ==
    \A i, j \in 1..Len(data) : i < j => StrLess(data[i].k, data[j].k)

\* C3: in every Dictionary snapshot reachable by construction from an
\* unsorted pair list with duplicate keys, Set, Remove, Clear, CopyTo,
\* ShallowClone and Clone, the keys are strictly ascending.
C3_KeysAscending == \A d \in DictIds : StrictlyAscending(dct[d])

\* one Dictionary holds all three keys, the other one two of them with
\* other values
C3_Witness ==
    /\ Len(dct[1]) = Cardinality(Keys)
    /\ Len(dct[2]) = 2
    /\ dct[2][1].v # dct[1][1].v
    /\ dct[2][2].k = dct[1][3].k

\* the position of the first pair of data with key key
FirstIndex(data, key) ==
    CHOOSE i \in 1..Len(data) :
      data[i].k = key /\ \A j \in 1..(i - 1) : data[j].k # key

\* C4: the Dictionary built from a pair list holds exactly one entry per
\* distinct key of the list, with the value of the key's first occurrence.
C4_FirstWins ==
    ctorOf # 0 =>
      LET out == dct[ctorOf]
      IN  /\ {out[i].k : i \in 1..Len(out)} = {ctorIn[i].k : i \in 1..Len(ctorIn)}
          /\ \A i, j \in 1..Len(out) : i # j => out[i].k # out[j].k
          /\ \A i \in 1..Len(out) :
               out[i].v = ctorIn[FirstIndex(ctorIn, out[i].k)].v

(***************************************************************************)
(* Properties of the writers (checked under SpecWriters and SpecRun).      *)
(***************************************************************************)
\* Pause has returned and Resume was not called since
PauseReturned ==
    dialect = "graphite" /\ pc["ctl"] = "idle" /\ paused /\ subs > 0

\* the worker is inside the exception callback
InHandler == pc["wk"] \in {"exc_chk", "exc_close", "exc_setc"}

\* thread t leaves ReconnectInternal's check of GetConnected()
LeavesCheck(t) == pc[t] = "ri_chk" /\ pc'[t] # "ri_chk"

\* C5: after GraphiteWriter::Pause has returned the work queue is empty, the
\* worker executes no task, and every task enqueued before Pause was called
\* has executed, whatever check-result events and timer ticks arrive from
\* other threads meanwhile.
C5_PauseJoins ==
    PauseReturned => queue = << >> /\ pc["wk"] = "idle" /\ oldTasks = 0

\* C6: in every reachable state of a Graphite writer, connected = true
\* implies that m_Stream is non-empty.
C6_ConnectedHasStream ==
    (dialect = "graphite" /\ connected) => m_Stream # 0

C6_Witness ==
    dialect = "graphite" /\ connected /\ m_Stream # 0 /\ sopen

\* C7: every step that takes connected from true to false finds the stream
\* of m_Stream closed by the same operation: no path sets connected = false
\* and leaves the stream open.
C7_DisconnectCloses ==
    [][(connected /\ ~connected') => (m_Stream' # 0 /\ ~sopen')]_vars

C9_ReconnectIdempotent ==
    [][/\ \A t \in {"ctl", "wk"} :
            (LeavesCheck(t) /\ connected) =>
                /\ pc'[t] = IF t = "wk" THEN "idle" ELSE "p_join"
                /\ UNCHANGED <<m_Stream, sopen, connected, opened>>
       /\ (dialect = "opentsdb" /\ m_Stream # 0) =>
                /\ pc'["tm"] = "idle"
                /\ m_Stream' \in {m_Stream, 0}
      ]_vars

C9_Witness ==
    pc["wk"] = "ri_chk" /\ connected /\ m_Stream # 0 /\ sopen

\* C10: in a running Graphite writer a reconnect task whose connect fails
\* leaves connected = false and ends in the exception handler, after which
\* the worker is idle again; the timer enqueues reconnect tasks again and
\* again; if the backend accepts connections from some point on, connected
\* becomes true, and each change of connected from false to true follows
\* exactly one successful socket open.
C10_ReconnectLoop ==
    /\ [][(pc["wk"] = "ri_conn" /\ pc'["wk"] # "ri_conn" /\ ~accepting) =>
              (pc'["wk"] = "exc_chk" /\ ~connected')]_vars
    /\ [][(pc["wk"] = "exc_chk" /\ pc'["wk"] # "exc_chk" /\ ~writeErr) =>
              (pc'["wk"] = "idle" /\ ~connected')]_vars
    /\ [][(~connected /\ connected') => opened = 1]_vars
    /\ []<>(pc["tm"] = "enq")
    /\ []<>(Count(queue, "Reconnect") > 0)
    /\ (<>[]accepting) => []<>connected

C10_Witness ==
    pc["wk"] = "exc_chk" /\ ~writeErr /\ ~connected /\ accepting
    /\ Count(queue, "Reconnect") > 0

\* the controller's thread is inside the connect of ReconnectInternal or the
\* disconnect of DisconnectInternal
ControllerConnects == pc["ctl"] \in {"ri_conn", "ri_setc", "d_close", "d_setc"}

\* C11: in the Graphite writer every step that stores or closes the stream
\* or changes connected is a step of the work queue's worker, and no other
\* thread is inside a connect or a disconnect while the worker is between
\* SendMetric's check and its write.
C11_WorkerConfined ==
    /\ [][(dialect = "graphite"
             /\ <<m_Stream, sopen, connected>>' # <<m_Stream, sopen, connected>>)
            => pc'["wk"] # pc["wk"]]_vars
    /\ [](~(ControllerConnects /\ pc["wk"] = "sm_write"))

\* Pause returns on the path where its ReconnectInternal call did not throw
\* (OpenTsdbWriter::Pause makes no such call)
PauseReturnsNormally ==
    \/ dialect = "graphite" /\ pc["ctl"] = "p_base" /\ pc'["ctl"] = "idle"
    \/ dialect = "opentsdb" /\ pc["ctl"] = "idle" /\ ~paused /\ paused'

\* C12: when Pause returns and its final reconnect attempt did not throw, the
\* writer (Graphite or OpenTSDB) reports not connected and holds no open
\* stream.
C12_PauseDisconnects ==
    [][PauseReturnsNormally
         => /\ ~connected'
            /\ ~(m_Stream' # 0 /\ sopen')]_vars
\* C13: while the writer is paused, a reconnect-timer tick and a check-result
\* event return at once, in both writers: the timer thread and the producer
\* thread stay where they are, and the step that drops the event enqueues no
\* task, opens no socket and writes no line.
C13_PausedDrops ==
    [][paused =>
         /\ pc["tm"] = "idle" => pc'["tm"] = "idle"
         /\ pc["ev"] = "idle" =>
               /\ pc'["ev"] = "idle"
               /\ eleft' # eleft =>
                     UNCHANGED <<queue, m_Stream, sopen, connected, wleft,
                                 opened>>]_vars

\* a resumed writer that is paused while its timer and its subscription are
\* live and both handlers are about to be called
C13_Witness ==
    /\ paused /\ subs > 0 /\ timer
    /\ pc["tm"] = "idle" /\ pc["ev"] = "idle"
    /\ queue = << >> /\ m_Stream = 0
\* line i of the record was written by an earlier task than line j, or by
\* the same task and emitted before it (a task emits its lines counting
\* wleft down)
Precedes(i, j) ==
    LET a == written.lines[i]
        b == written.lines[j]
    IN  a[1] < b[1] \/ (a[1] = b[1] /\ a[2] > b[2])

C19_EmptyStaysEmpty == heap[1] = << >>

\* a default-constructed Array was mutated and is no longer empty
C19_Witness ==
    sp0 = 1 /\ sp # 1 /\ heap[sp] # << >> /\ Quiescent /\ opsLeft = 0

\* C20: the compare-and-swap of a copy_update fails only if another writer
\* published a snapshot (by copy_update or by reset) after this attempt
\* loaded sp, and it succeeds if none did; every copy_update that was
\* entered returns, the number of writes being finite.
C20_LockFree ==
    /\ [][\A w \in Writers :
            (wpc[w] = "cas" /\ wpc'[w] = "fun1") => stale[w]]_vars
    /\ [][\A w \in Writers :
            (wpc[w] = "cas" /\ ~stale[w] /\ wpc'[w] # "cas") =>
                (wpc'[w] = "idle" /\ sp' = wr[w])]_vars
    /\ \A w \in Writers : (wpc[w] # "idle") ~> (wpc[w] = "idle")

\* a writer is about to retry after a compare-and-swap that failed because
\* the other writer published
C20_Witness ==
    \E w \in Writers :
        /\ wpc[w] = "fun1" /\ ~stale[w]
        /\ wsp_l[w] # sp0 /\ wsp_l[w] = sp /\ heap[sp] # heap[sp0]
        /\ \A x \in Writers \ {w} : wpc[x] = "idle"

(***************************************************************************)
(* Properties of the field accessors of Array (checked under SpecField).   *)
(***************************************************************************)
\* the field name of the call, as Convert::ToLong parses it
Parsed == ToLong(fcall.field)

\* C15: SetFieldByName with a key that parses as a nonnegative index n, on
\* an Array of length L, returns; the Array then has length max(L, n + 1),
\* element n is the value passed, every other element below L is as before
\* and every other new element is empty.
C15_SetFieldGrows ==
    (fcall.op = "set" /\ Parsed.ok /\ Parsed.val >= 0) =>
        LET n == Parsed.val
            L == Len(fcall.before)
        IN  /\ fcall.out.kind = "returned"
            /\ Len(fdata) = IF n >= L THEN n + 1 ELSE L
            /\ fdata[n + 1] = fcall.value
            /\ \A i \in 1..Len(fdata) :
                 i # n + 1 =>
                   fdata[i] = IF i <= L THEN fcall.before[i] ELSE Empty

\* C16: SetFieldByName with a key that parses as a negative integer, or that
\* does not parse as an integer, throws a ScriptError carrying the caller's
\* DebugInfo and leaves the snapshot as it was.
C16_SetFieldRejects ==
    (fcall.op = "set" /\ (~Parsed.ok \/ Parsed.val < 0)) =>
        /\ fcall.out.kind = "ScriptError"
        /\ fcall.out.debugInfo
        /\ fdata = fcall.before

\* C17: GetFieldByName with a key that parses as an integer outside
\* 0 .. length - 1 throws a ScriptError, with a key that parses as an index
\* inside it returns that element of the snapshot, with a key that does not
\* parse it returns what the prototype lookup returns; the Array is not
\* modified.
C17_GetFieldChecks ==
    fcall.op = "get" =>
        /\ fdata = fcall.before
        /\ IF ~Parsed.ok THEN fcall.out.kind = "prototype"
           ELSE IF Parsed.val < 0 \/ Parsed.val >= Len(fdata)
             THEN fcall.out.kind = "ScriptError"
           ELSE fcall.out = Returns(fdata[Parsed.val + 1])
(***************************************************************************)
(* Properties of Clone and ShallowClone (checked under SpecClone).         *)
(***************************************************************************)
\* the step mutates an object inside container id
MutatesIn(id) ==
    \E o \in Reach(store, id) : store'[o] # store[o]

\* C18: after c = x.Clone() a mutation of c, or of a container nested in c,
\* changes nothing a reader finds in x and its nested containers, and the
\* other way round; x.ShallowClone() returns a new object whose values are
\* those of x, references to the same nested objects included, and a
\* mutation of the top level of either leaves the top level of the other.
C18_CloneDisjoint ==
    /\ [][cloned.kind = "deep" =>
            /\ MutatesIn(cloned.c) =>
                  Deep(store', cloned.x) = Deep(store, cloned.x)
            /\ MutatesIn(cloned.x) =>
                  Deep(store', cloned.c) = Deep(store, cloned.c)]_vars
    /\ [][cloned'.kind = "deep" /\ cloned.kind = "none" =>
            /\ Deep(store', cloned'.c) = Deep(store, cloned'.x)
            /\ Deep(store', cloned'.x) = Deep(store, cloned'.x)]_vars
    /\ [][cloned'.kind = "shallow" /\ cloned.kind = "none" =>
            /\ cloned'.c # cloned'.x
            /\ store[cloned'.c].kind = "free"
            /\ store'[cloned'.c] = store[cloned'.x]
            /\ store'[cloned'.x] = store[cloned'.x]]_vars
    /\ [][cloned.kind = "shallow" =>
            /\ store'[cloned.c] # store[cloned.c] =>
                  store'[cloned.x] = store[cloned.x]
            /\ store'[cloned.x] # store[cloned.x] =>
                  store'[cloned.c] = store[cloned.c]]_vars
    /\ [](cloned.kind = "shallow" =>
            \A i \in 1..Len(store[cloned.c].vals) :
               IsRef(store[cloned.c].vals[i]) =>
                  store[cloned.c].vals[i] = cloned.vals[i])

\* a container nested in the clone was mutated, and the original and its
\* nested containers hold what they held when Clone was called
C18_Witness ==
    /\ cloned.kind = "deep"
    /\ store[1].vals = <<1, Ref(2)>>
    /\ store[2].vals \in {<<2>>, <<Ref(3), 2>>}
    /\ store[3].vals \in {<< >>, <<1>>}
    /\ store[cloned.c].vals[1] = 1
    /\ IsRef(store[cloned.c].vals[2])
    /\ Deep(store, cloned.c) # Deep(store, cloned.x)

(***************************************************************************)
(* Properties of the metric names and lines.                               *)
(***************************************************************************)
\* str holds sub somewhere
Holds(str, sub) ==
    \E i \in 1..(Len(str) - Len(sub) + 1) :
        SubSeq(str, i, i + Len(sub) - 1) = sub

\* C23: the result of EscapeMetric holds none of ' ', '.', '\', '/', the
\* result of OpenTSDB's EscapeMetric none of ' ', '.', '\', ':', the result
\* of EscapeMetricLabel none of ' ', '\', '/' and no "::"; and escaping the
\* result again gives the result back.
C23_EscapesIdempotent ==
    /\ fout.op = "EscapeMetric" =>
         /\ \A c \in {" ", ".", "\\", "/"} : ~Holds(fout.out, c)
         /\ EscapeMetric(fout.out) = fout.out
    /\ fout.op = "TsdbEscapeMetric" =>
         /\ \A c \in {" ", ".", "\\", ":"} : ~Holds(fout.out, c)
         /\ TsdbEscapeMetric(fout.out) = fout.out
    /\ fout.op = "EscapeMetricLabel" =>
         /\ \A c \in {" ", "\\", "/", "::"} : ~Holds(fout.out, c)
         /\ EscapeMetricLabel(fout.out) = fout.out

C23_Witness ==
    /\ fin = "/::"
    /\ fout.op = "EscapeMetricLabel"
    /\ fout.out = "_."

\* a perfdata element that carries all four thresholds, sent with thresholds
\* enabled
CarriesAll ==
    /\ fout.op = "SendPerfdata"
    /\ fin.thresholds
    /\ Len(fin.perfdata) = 1
    /\ fin.perfdata[1].valid
    /\ \A v \in {fin.perfdata[1].crit, fin.perfdata[1].warn,
                 fin.perfdata[1].min, fin.perfdata[1].max} : v # NoThreshold

\* C21: with thresholds enabled, a perfdata element that carries crit, warn,
\* min and max gives the .value line and then exactly four lines, .crit,
\* .warn, .min, .max in this order, all with the same whole-second timestamp.
C21_FourThresholdLines ==
    CarriesAll =>
        LET pdv == fin.perfdata[1]
            key == EscapeMetricLabel(pdv.label)
            Expect(suffix, v) ==
                fin.prefix \o "." \o key \o suffix \o " " \o NumToString(v)
                    \o " 1600\n"
        IN  fout.out = <<Expect(".value", pdv.value), Expect(".crit", pdv.crit),
                         Expect(".warn", pdv.warn), Expect(".min", pdv.min),
                         Expect(".max", pdv.max)>>

\* C22: for a service check the OpenTSDB lines are "put <metric> <ts>
\* <value>" and the tags, tokens one space apart; the state line carries
\* only host=<host>, the icinga.check lines carry host, type, service in
\* this order.
C22_TsdbLineFormat ==
    (fout.op = "CheckResultHandler" /\ fin.isService) =>
        LET n == Len(fout.out)
            host == "host=" \o EscapeTag(fin.host)
        IN  /\ fout.out[1] =
                 "put icinga.service." \o TsdbEscapeMetric(fin.service)
                     \o ".state 1600 " \o NumToString(fin.state) \o " "
                     \o host \o "\n"
            /\ fout.out[n - 3] =
                 "put icinga.check.current_attempt 1600 "
                     \o NumToString(fin.check_attempt) \o " " \o host
                     \o " type=service service=" \o EscapeTag(fin.service)
                     \o "\n"

(***************************************************************************)
(* Properties of the Array operations by index.                            *)
(***************************************************************************)
\* writer w's copy_update publishes in this step
Publishes(w) == wpc[w] = "cas" /\ wpc'[w] = "idle"

\* C24: a Set(i, v) call, copy or move variant, with i inside the snapshot
\* it replaces, publishes that snapshot with element i replaced by the
\* caller's v, also after discarded attempts.
C24_SetPublishesValue ==
    [][\A w \in Writers :
          (Publishes(w) /\ wop[w].kind \in {"Set", "SetMove"}) =>
              /\ wop[w].idx < Len(heap[sp])
              /\ heap'[sp'] = [heap[sp] EXCEPT ![wop[w].idx + 1] = ValOf[w]]]_vars

\* C26: Insert(i, v) with i inside or at the end of the snapshot it
\* replaces publishes that snapshot with v put in at position i and the
\* elements from i on moved up by one; with i beyond the end it publishes
\* nothing.
C26_InsertShifts ==
    [][\A w \in Writers :
          (Publishes(w) /\ wop[w].kind = "Insert") =>
              /\ wop[w].idx <= Len(heap[sp])
              /\ Len(heap'[sp']) = Len(heap[sp]) + 1
              /\ \A j \in 1..Len(heap'[sp']) :
                    heap'[sp'][j] = IF j <= wop[w].idx THEN heap[sp][j]
                                    ELSE IF j = wop[w].idx + 1 THEN ValOf[w]
                                    ELSE heap[sp][j - 1]]_vars

\* a and b hold the same values the same number of times
SameElements(a, b) ==
    /\ Len(a) = Len(b)
    /\ \A v \in {Empty} \cup Vals : Count(a, v) = Count(b, v)

\* C29: Sort publishes the elements of the snapshot it replaces in ascending
\* order, none lost or added; Reverse returns a new array with the elements
\* of the current snapshot last to first, and the snapshot stays as it was.
C29_SortAndReverse ==
    [][/\ \A w \in Writers :
             (Publishes(w) /\ wop[w].kind = "Sort") =>
                 /\ SameElements(heap'[sp'], heap[sp])
                 /\ \A i, j \in 1..Len(heap'[sp']) :
                       i < j => heap'[sp'][i] <= heap'[sp'][j]
       /\ (fout' # fout) =>
             /\ fout'.op = "Reverse"
             /\ Len(fout'.out) = Len(heap[sp])
             /\ \A i \in 1..Len(heap[sp]) :
                   fout'.out[i] = heap[sp][Len(heap[sp]) + 1 - i]
             /\ sp' = sp
             /\ heap'[sp] = heap[sp]]_vars

\* [2, 1] was reversed into a new array [1, 2] and then sorted into [1, 2]
C29_Witness ==
    /\ heap[sp0] = <<2, 1>>
    /\ fout = [op |-> "Reverse", out |-> <<1, 2>>]
    /\ opsLeft = 0
    /\ \A w \in Writers : wpc[w] = "idle"
    /\ sp # sp0
    /\ heap[sp] = <<1, 2>>

(***************************************************************************)
(* Dictionary as a finite map.                                             *)
(***************************************************************************)
\* what the map gives for key k
Lookup(map, k) == IF map[k] = Absent THEN Empty ELSE map[k]

\* C25: after any Set, Remove and Clear calls Get(k) returns what was last
\* Set for k and not removed or cleared since, else the empty value;
\* Contains(k) and the flag of Get(k, out) say whether there is such a Set;
\* Set makes the Dictionary one longer exactly when the key was absent and
\* keeps every other key's value; Remove of an absent key changes nothing.
C25_RefinesMap ==
    /\ Len(dct[1]) = Cardinality({k \in Keys : amap[k] # Absent})
    /\ \A k \in Keys : /\ DictGet(dct[1], k) = Lookup(amap, k)
                       /\ DictContains(dct[1], k) = (amap[k] # Absent)
    /\ mcall.op = "Get" => mcall.ret = Lookup(amap, mcall.key)
    /\ mcall.op = "Contains" => mcall.ret = (amap[mcall.key] # Absent)
    /\ mcall.op = "GetOut" =>
         /\ mcall.ret.found = (amap[mcall.key] # Absent)
         /\ mcall.ret.found => mcall.ret.result = amap[mcall.key]
    /\ mcall.op = "Set" =>
         /\ Len(dct[1]) = Len(mcall.before)
                            + (IF mcall.was[mcall.key] = Absent THEN 1 ELSE 0)
         /\ \A k \in Keys \ {mcall.key} :
               /\ DictGet(dct[1], k) = DictGet(mcall.before, k)
               /\ DictContains(dct[1], k) = DictContains(mcall.before, k)
    /\ (mcall.op = "Remove" /\ mcall.was[mcall.key] = Absent) =>
         dct[1] = mcall.before

\* "ab" was set to the empty value between "a" and "b", and Get("ab", out)
\* found it
C25_Witness ==
    /\ Len(dct[1]) = 3
    /\ amap[<<97, 98>>] = Empty
    /\ mcall.op = "GetOut"
    /\ mcall.key = <<97, 98>>
    /\ mcall.ret = [found |-> TRUE, result |-> Empty]

C28_StreamUnderLock ==
    [][(m_Stream' # m_Stream \/ sopen' # sopen) =>
          /\ StreamLockHolder # "none"
          /\ pc'[StreamLockHolder] # pc[StreamLockHolder]]_vars

(***************************************************************************)
(* ObjectLock.                                                             *)
(***************************************************************************)
RECURSIVE SumTo(_, _)
SumTo(f, n) == IF n = 0 THEN 0 ELSE f[n] + SumTo(f, n - 1)

\* C30: an ObjectLock instance adds 0 or 1 to the hold count of its
\* target's mutex: 1 after construction with a target or after Lock, 0 after
\* Unlock or destruction or construction without a target; Unlock and
\* destruction of an instance that does not hold the lock leave the mutex as
\* it is, so Unlock and then destruction release once.
C30_HoldsAtMostOnce ==
    /\ [](/\ m_Mutex.count = SumTo(contrib, MaxLocks)
          /\ \A i \in LockIds :
               /\ contrib[i] \in {0, 1}
               /\ (olock[i].last \in {"ctor", "Lock"} /\ olock[i].m_Object # 0)
                    => (contrib[i] = 1 /\ m_Mutex.owner = olock[i].th)
               /\ (olock[i].last \in {"none", "Unlock", "dtor"}
                     \/ olock[i].m_Object = 0) => contrib[i] = 0)
    /\ [][\A i \in LockIds :
             (olock'[i] # olock[i] /\ olock'[i].last \in {"Unlock", "dtor"}) =>
                 IF contrib[i] = 1
                 THEN m_Mutex'.count = m_Mutex.count - 1
                 ELSE m_Mutex' = m_Mutex]_vars

\* an instance was unlocked and then destroyed while a second instance of
\* the same thread still holds the mutex once
C30_Witness ==
    /\ olock[1].prev = "Unlock" /\ olock[1].last = "dtor"
    /\ olock[1].m_Object = 1
    /\ olock[2].state = "live" /\ olock[2].th = olock[1].th
    /\ olock[2].m_Locked
    /\ m_Mutex.count = 1

\* C31: whatever Resume and Pause calls went before, a check result that is
\* being delivered has at most one call of the writer's CheckResultHandler
\* to make (one task to enqueue for Graphite, one synchronous handling for
\* OpenTSDB): a later Resume adds no further subscription.
C31_OneCallPerEvent == eleft <= 1

\* C32: a Graphite writer owns at most one open stream: no step stores a
\* new stream in m_Stream while the stream m_Stream refers to is still open,
\* whichever of the worker's Reconnect task and Pause runs ReconnectInternal.
C32_OneOpenStream ==
    [][(dialect = "graphite" /\ m_Stream' # m_Stream)
         => ~(m_Stream # 0 /\ sopen)]_vars

\* C33: Clear linearizes with the copy_update writers.  The published
\* snapshot always holds the initial elements and the added values stored
\* since the last Clear, in the order they were stored, and nothing from
\* before that Clear; so an Add that starts after Clear has returned is not
\* lost, and when one Clear and one Add(v) have run on an array holding [a]
\* and both have returned, the snapshot is [] or [v].
C33_ClearLinearizes ==
    /\ heap[sp] = sinceClear
    /\ \A v \in Vals :
          (/\ Quiescent /\ nonAdd /\ opsLeft = MaxOps - 2
           /\ added[v] = 1 /\ \A u \in Vals \ {v} : added[u] = 0)
            => heap[sp] \in {<< >>, <<v>>}

\* Clear has stored its empty snapshot while an Add is between its copy of
\* the old snapshot [a] and its compare-exchange: the Add's buffer holds the
\* element from before the Clear
C33_Witness ==
    /\ nonAdd /\ opsLeft = MaxOps - 2 /\ pub[sp0] = <<1>>
    /\ heap[sp] = << >>
    /\ wpc["w2"] = "cas" /\ stale["w2"] /\ heap[wr["w2"]] = <<1, 2>>

====
